---- MODULE Spec2Model ----
(***************************************************************************)
(* CustomHashmap<K, V> (src/modules/hashmap/custom-hashmap.ts) with the    *)
(* default hash of HashUtils (src/modules/hashmap/hash-utils.ts) and the   *)
(* constants of src/modules/hashmap/types.ts.                              *)
(*                                                                         *)
(* A key is a record [t, s]: t is the kind of key ("string", "undefined",   *)
(* "null", "object", "bare"), s the UTF-16 code units of a string key.     *)
(* A 32-bit hash                                                           *)
(* is kept as its two 16-bit halves [hi, lo], so that the int32 wrap of    *)
(* `hash | 0` is computed exactly.  A chain is a sequence of nodes, head   *)
(* first; bucket index i of the code is buckets[i + 1] here.  A load       *)
(* factor is the exact fraction <<numerator, denominator>>.                *)
(***************************************************************************)
EXTENDS Integers, Sequences, FiniteSets, TLC

\* ---- HASHMAP_CONSTANTS (types.ts) ----
DEFAULT_CAPACITY == 16
DEFAULT_LOAD_FACTOR == <<3, 4>>
RESIZE_MULTIPLIER == 2
MIN_CAPACITY == 1
HASH_PRIME == 5381
HASH_MULTIPLIER == 33

\* ---- bounds of the model ----
MaxOps == 4
\* the length of the strings whose hash is computed on its own
MaxLen == 5

\* ---- values of the model ----
Undefined == "undefined"
Null == 0

StringKey(codes) == [t |-> "string", s |-> codes]
UndefinedKey == [t |-> "undefined", s |-> <<>>]

\* "a", "e", "i" share a bucket at capacities 1, 2 and 4; "key1" is the
\* key of the repository's tests.
Keys ==
  { StringKey(<<97>>), StringKey(<<101>>), StringKey(<<105>>),
    StringKey(<<107, 101, 121, 49>>) }
AllKeys == Keys \cup {UndefinedKey}

\* null; an object that refers to itself (JSON.stringify throws on it,
\* String gives "[object Object]"); such an object without a prototype
\* (Object.create(null): String throws on it as well)
NullKey == [t |-> "null", s |-> <<>>]
CircularKey == [t |-> "object", s |-> <<>>]
BareCircularKey == [t |-> "bare", s |-> <<>>]
OtherKeys == {StringKey(<<97>>), UndefinedKey, NullKey, CircularKey, BareCircularKey}
\* keys that differ in case only ("a", "A"), and "e"
EqualsKeys == {StringKey(<<97>>), StringKey(<<65>>), StringKey(<<101>>)}

\* the keys of the metadata cache are attachment paths:
\* "uploads/x.txt", "uploads/y.txt" and "missing"
PathX == StringKey(<<117, 112, 108, 111, 97, 100, 115, 47, 120, 46, 116, 120, 116>>)
PathY == StringKey(<<117, 112, 108, 111, 97, 100, 115, 47, 121, 46, 116, 120, 116>>)
PathMissing == StringKey(<<109, 105, 115, 115, 105, 110, 103>>)
StoredPaths == {PathX, PathY}
Paths == StoredPaths \cup {PathMissing}
\* twelve more paths, "uploads/a.txt" ... "uploads/l.txt"
FillerPath(i) ==
  StringKey(<<117, 112, 108, 111, 97, 100, 115, 47, 96 + i, 46, 116, 120, 116>>)
KeyUniverse == AllKeys \cup OtherKeys \cup Paths \cup EqualsKeys
Values == {"v1", "v2"}

\* options?.initialCapacity and options?.loadFactor: <<>> is "not given"
InitialCapacityOptions == { <<>>, <<0>>, <<2>>, <<4>> }
LoadFactorOptions == { <<>>, << <<1, 4>> >> }

VARIABLES
  buckets,        \* this.buckets
  size,           \* this._size
  capacity,       \* this.capacity
  loadFactor,     \* this.loadFactor
  hashFunction,   \* this.hashFunction ("undefined" when not given)
  equalsFunction, \* this.equalsFunction
  last,           \* the last call and what it returned
  model,          \* history: per key, the value of its latest set not followed by delete/clear
  everSet,        \* history: the keys ever passed to a set that returned
  newKeySets,     \* history: number of set calls on a key that was not present
  deleteTrue,     \* history: number of delete calls that returned true
  clearCalled,    \* history: clear has been called
  nOps,           \* history: number of mutating calls so far
  order,          \* history: the live keys, oldest insertion first (when order.on),
                  \* and the capacity at construction (when order.on)
  store,          \* the rows of the attachments table, by id
  boot,           \* onModuleInit: "init", "done" or "failed"
  calls,          \* per caller, the service call in flight and where it is suspended
  result,         \* the last service call that returned or threw
  nCalls,         \* history: number of service calls and external changes so far
  nFindByPath,    \* history: number of repository.findByPath calls
  nFindAllActive  \* history: number of repository.findAllActive calls

table == <<buckets, size, capacity>>
config == <<loadFactor, hashFunction, equalsFunction>>
history == <<model, everSet, newKeySets, deleteTrue, clearCalled, nOps, order>>
service == <<store, boot, calls, result, nCalls, nFindByPath, nFindAllActive>>
vars == <<buckets, size, capacity, loadFactor, hashFunction, equalsFunction,
          last, model, everSet, newKeySets, deleteTrue, clearCalled, nOps, order,
          store, boot, calls, result, nCalls, nFindByPath, nFindAllActive>>

\* ---- helpers ----
Max(a, b) == IF a >= b THEN a ELSE b
Abs(n) == IF n < 0 THEN -n ELSE n
OrDefault(opt, d) == IF opt = <<>> THEN d ELSE opt[1]

\* ---- HashUtils ----
\* int32 value n >= 0 as halves
ToInt32(n) == [hi |-> (n \div 65536) % 65536, lo |-> n % 65536]

\* hash = (hash * HASH_MULTIPLIER) + charCode; hash = hash | 0
\* h is a signed 32-bit number and so is the result: the exact product and
\* sum (below 2^53 in magnitude), computed in 16-bit limbs, then `| 0`
\* (the value modulo 2^32, read as signed)
hashStep(h, c) ==
  LET lo == (h % 65536) * HASH_MULTIPLIER + c
      hi == ((h \div 65536) * HASH_MULTIPLIER + (lo \div 65536)) % 65536
  IN (IF hi >= 32768 THEN hi - 65536 ELSE hi) * 65536 + (lo % 65536)

RECURSIVE hashStringFrom(_, _, _)
hashStringFrom(str, i, h) ==
  IF i > Len(str) THEN h
  ELSE hashStringFrom(str, i + 1, hashStep(h, str[i]))

\* n >>> 0 for a signed 32-bit n: the unsigned reading, as halves
ToUint32(n) == [hi |-> (n \div 65536) % 65536, lo |-> n % 65536]

\* mutant: the signed hash is returned (no `>>> 0`)
hashString_signed(str) ==
  LET n == hashStringFrom(str, 1, HASH_PRIME)
  IN [hi |-> n \div 65536, lo |-> n % 65536]

hashString(str) == ToUint32(hashStringFrom(str, 1, HASH_PRIME))

\* the hash of a key whose hashing throws
HashThrows == [hi |-> -1, lo |-> -1]

\* JSON.stringify(key) for a key that is not a string, number or boolean:
\* a string, undefined, or a TypeError (circular structure)
JSONstringify(key) ==
  CASE key.t = "undefined" -> [kind |-> "undefined", s |-> <<>>]
    [] key.t = "null" -> [kind |-> "string", s |-> <<110, 117, 108, 108>>]
    [] OTHER -> [kind |-> "throws", s |-> <<>>]

\* String(key): "undefined", "null", "[object Object]", or a TypeError
\* (cannot convert object to primitive value)
StringOf(key) ==
  CASE key.t = "undefined" ->
         [kind |-> "string", s |-> <<117, 110, 100, 101, 102, 105, 110, 101, 100>>]
    [] key.t = "null" -> [kind |-> "string", s |-> <<110, 117, 108, 108>>]
    [] key.t = "object" ->
         [kind |-> "string",
          s |-> <<91, 111, 98, 106, 101, 99, 116, 32, 79, 98, 106, 101, 99, 116, 93>>]
    [] OTHER -> [kind |-> "throws", s |-> <<>>]

\* try: hashString(JSON.stringify(key)), which throws when JSON.stringify
\* throws or returns undefined (.length of undefined); catch:
\* hashString(String(key)), whose failure is not caught
hashObject(key) ==
  LET json == JSONstringify(key)
      str == StringOf(key)
  IN IF json.kind = "string" THEN hashString(json.s)
     ELSE IF str.kind = "string" THEN hashString(str.s)
     ELSE HashThrows

defaultHash(key) ==
  IF key.t = "string" THEN hashString(key.s) ELSE hashObject(key)

\* a signed 32-bit integer as halves of its two's complement
Int32(n) ==
  IF n >= 0 THEN ToInt32(n)
  ELSE [hi |-> 65535 - ((-n - 1) \div 65536), lo |-> 65535 - ((-n - 1) % 65536)]

MinInt32 == [hi |-> 32768, lo |-> 0]

\* a user-supplied hash function, by name: "sameBucket" is () => 42 (also
\* what "flaky" returns when it does not throw), "negative" returns a
\* negative 32-bit integer per key, -2^31 for "a"
customHash(fn, key) ==
  IF fn = "negative"
    THEN IF key.s = <<>> THEN Int32(-10)
         ELSE IF key.s = <<97>> THEN MinInt32
         ELSE Int32(-(key.s[1]))
    ELSE Int32(42)

\* Math.abs(h | 0) for a 32-bit h: the magnitude, up to 2^31, as halves
AbsInt32(h) ==
  IF h.hi < 32768 THEN h
  ELSE [hi |-> 65535 - h.hi + (IF h.lo = 0 THEN 1 ELSE 0), lo |-> (65536 - h.lo) % 65536]

\* hash % capacity for an unsigned 32-bit hash in halves
Mod32(h, cap) == ((h.hi % cap) * (65536 % cap) + (h.lo % cap)) % cap

\* defaultHash, tabulated over the keys of the model
DefaultHashOf == [k \in KeyUniverse \cup { FillerPath(i) : i \in 1..12 } |-> defaultHash(k)]

\* mutant: the custom hash is used without Math.abs (the remainder of a
\* negative number is negative)
HashUtils_getBucketIndex_noAbs(key, cap, fn) ==
  IF fn # Undefined
    THEN IF customHash(fn, key).hi < 32768
           THEN Mod32(customHash(fn, key), cap)
           ELSE 0 - Mod32(AbsInt32(customHash(fn, key)), cap)
    ELSE Mod32(DefaultHashOf[key], cap)

HashUtils_getBucketIndex(key, cap, fn) ==
  IF fn # Undefined
    THEN Mod32(AbsInt32(customHash(fn, key)), cap)
    ELSE Mod32(DefaultHashOf[key], cap)

\* ---- CustomHashmap: private methods, on a table t = [buckets, size, capacity] ----
\* mutant: no validation
validateKey_none(key) == TRUE

validateKey(key) == key.t # "undefined"   \* FALSE: throws 'Key cannot be undefined'

KeyUndefinedError == "Key cannot be undefined"
TypeError == "TypeError"

\* getBucketIndex(key) throws: the default hash of the key throws
getBucketIndexThrows(key) == hashFunction = Undefined /\ DefaultHashOf[key] = HashThrows

\* String.prototype.toLowerCase on the code units A-Z
toLowerCase(key) ==
  [key EXCEPT !.s = [i \in DOMAIN key.s |->
                       IF key.s[i] \in 65..90 THEN key.s[i] + 32 ELSE key.s[i]]]

\* this.equalsFunction: the default a === b, or the user-supplied
\* (a, b) => a.toLowerCase() === b.toLowerCase()
equals(a, b) ==
  IF equalsFunction = "caseInsensitive"
    THEN toLowerCase(a) = toLowerCase(b)
    ELSE a = b

getBucketIndex(t, key) == HashUtils_getBucketIndex(key, t.capacity, hashFunction)

\* mutant: only the head of the chain is compared
findNodeInBucket_headOnly(t, bucketIndex, key) ==
  LET chain == t.buckets[bucketIndex + 1]
  IN IF chain # <<>> /\ equals(chain[1].key, key) THEN 1 ELSE Null

\* position in the chain of the first node whose key equals key, or Null
findNodeInBucket(t, bucketIndex, key) ==
  LET chain == t.buckets[bucketIndex + 1]
      hits == { i \in 1..Len(chain) : equals(chain[i].key, key) }
  IN IF hits = {} THEN Null
     ELSE CHOOSE i \in hits : \A j \in hits : i <= j

findNode(t, key) == findNodeInBucket(t, getBucketIndex(t, key), key)

\* mutant: the new node goes to the end of the chain
insertNewNode_atTail(t, bucketIndex, key, value) ==
  [t EXCEPT !.buckets[bucketIndex + 1] = @ \o <<[key |-> key, value |-> value]>>,
            !.size = @ + 1]

insertNewNode(t, bucketIndex, key, value) ==
  [t EXCEPT !.buckets[bucketIndex + 1] = <<[key |-> key, value |-> value]>> \o @,
            !.size = @ + 1]

\* mutant: the bucket always takes the successor of the unlinked node, also
\* when there is a previous node
deleteFromBucket_dropsPrefix(t, bucketIndex, key) ==
  LET chain == t.buckets[bucketIndex + 1]
      n == findNodeInBucket(t, bucketIndex, key)
  IN IF n = Null THEN <<t, FALSE>>
     ELSE << [t EXCEPT !.buckets[bucketIndex + 1] = SubSeq(chain, n + 1, Len(chain)),
                       !.size = @ - 1],
             TRUE >>

\* mutant: the head of a chain is not unlinked (the bucket is not updated
\* when there is no previous node)
deleteFromBucket_headKept(t, bucketIndex, key) ==
  LET chain == t.buckets[bucketIndex + 1]
      n == findNodeInBucket(t, bucketIndex, key)
  IN IF n = Null THEN <<t, FALSE>>
     ELSE << [t EXCEPT !.buckets[bucketIndex + 1] =
                          IF n = 1 THEN chain
                          ELSE SubSeq(chain, 1, n - 1) \o SubSeq(chain, n + 1, Len(chain)),
                       !.size = @ - 1],
             TRUE >>

\* <<table after, returned boolean>>
deleteFromBucket(t, bucketIndex, key) ==
  LET chain == t.buckets[bucketIndex + 1]
      n == findNodeInBucket(t, bucketIndex, key)
  IN IF n = Null THEN <<t, FALSE>>
     ELSE << [t EXCEPT !.buckets[bucketIndex + 1] =
                          SubSeq(chain, 1, n - 1) \o SubSeq(chain, n + 1, Len(chain)),
                       !.size = @ - 1],
             TRUE >>

insertNodeWithoutResize(t, key, value) ==
  insertNewNode(t, getBucketIndex(t, key), key, value)

\* the nodes of bs in traversal order: bucket by bucket, each chain from its head
RECURSIVE forEachNodeFrom(_, _)
forEachNodeFrom(bs, b) ==
  IF b > Len(bs) THEN <<>>
  ELSE bs[b] \o forEachNodeFrom(bs, b + 1)

forEachNode(bs) == forEachNodeFrom(bs, 1)

RECURSIVE rehashFrom(_, _, _)
rehashFrom(t, nodes, i) ==
  IF i > Len(nodes) THEN t
  ELSE rehashFrom(insertNodeWithoutResize(t, nodes[i].key, nodes[i].value), nodes, i + 1)

\* mutant: only the head of each old chain is re-inserted
rehashAllNodes_headsOnly(t, oldBuckets) ==
  rehashFrom(t,
             forEachNode([b \in 1..Len(oldBuckets) |->
                            IF oldBuckets[b] = <<>> THEN <<>> ELSE <<oldBuckets[b][1]>>]),
             1)

rehashAllNodes(t, oldBuckets) == rehashFrom(t, forEachNode(oldBuckets), 1)

\* mutant: this._size is not reset before the nodes are re-inserted
resize_keepsSize(t, newCapacity) ==
  LET cap == Max(MIN_CAPACITY, newCapacity)
  IN rehashAllNodes([buckets |-> [b \in 1..cap |-> <<>>], size |-> t.size, capacity |-> cap],
                    t.buckets)

\* mutant: the chains stay at their old indices in the new array
resize_keepsPlacement(t, newCapacity) ==
  LET cap == Max(MIN_CAPACITY, newCapacity)
  IN [buckets |-> [b \in 1..cap |-> IF b <= t.capacity THEN t.buckets[b] ELSE <<>>],
      size |-> t.size, capacity |-> cap]

\* mutant: resize hands control back after it re-inserted six nodes, the
\* callers see the table as it is then
resize_yieldsMidway(t, newCapacity) ==
  LET cap == Max(MIN_CAPACITY, newCapacity)
  IN rehashFrom([buckets |-> [b \in 1..cap |-> <<>>], size |-> 0, capacity |-> cap],
                SubSeq(forEachNode(t.buckets), 1, 6), 1)

resize(t, newCapacity) ==
  LET cap == Max(MIN_CAPACITY, newCapacity)
  IN rehashAllNodes([buckets |-> [b \in 1..cap |-> <<>>], size |-> 0, capacity |-> cap],
                    t.buckets)

\* mutant: grows when the ratio reaches the load factor (>= for >)
resizeIfNeeded_atThreshold(t) ==
  IF t.size * loadFactor[2] >= loadFactor[1] * t.capacity
    THEN resize(t, t.capacity * RESIZE_MULTIPLIER)
    ELSE t

\* mutant: grows when there are more entries than buckets, whatever the
\* load factor
resizeIfNeeded_ignoresLoadFactor(t) ==
  IF t.size > t.capacity
    THEN resize(t, t.capacity * RESIZE_MULTIPLIER)
    ELSE t

resizeIfNeeded(t) ==
  IF t.size * loadFactor[2] > loadFactor[1] * t.capacity
    THEN resize(t, t.capacity * RESIZE_MULTIPLIER)
    ELSE t

\* ---- CustomHashmap: what the public methods compute ----
This == [buckets |-> buckets, size |-> size, capacity |-> capacity]

\* mutant: the load factor is checked after an overwrite too
setResult_resizeOnOverwrite(t, key, value) ==
  LET bucketIndex == getBucketIndex(t, key)
      existingNode == findNodeInBucket(t, bucketIndex, key)
  IN IF existingNode # Null
       THEN resizeIfNeeded([t EXCEPT !.buckets[bucketIndex + 1][existingNode].value = value])
       ELSE resizeIfNeeded(insertNewNode(t, bucketIndex, key, value))

\* mutant: a set on a present key returns without writing the value
setResult_keepsOldValue(t, key, value) ==
  LET bucketIndex == getBucketIndex(t, key)
      existingNode == findNodeInBucket(t, bucketIndex, key)
  IN IF existingNode # Null
       THEN t
       ELSE resizeIfNeeded(insertNewNode(t, bucketIndex, key, value))

\* mutant: a node is inserted without scanning the chain for the key
setResult_alwaysInserts(t, key, value) ==
  resizeIfNeeded(insertNewNode(t, getBucketIndex(t, key), key, value))

setResult(t, key, value) ==
  LET bucketIndex == getBucketIndex(t, key)
      existingNode == findNodeInBucket(t, bucketIndex, key)
  IN IF existingNode # Null
       THEN [t EXCEPT !.buckets[bucketIndex + 1][existingNode].value = value]
       ELSE resizeIfNeeded(insertNewNode(t, bucketIndex, key, value))

getResult(t, key) ==
  LET bucketIndex == getBucketIndex(t, key)
      node == findNodeInBucket(t, bucketIndex, key)
  IN IF node = Null THEN Undefined ELSE t.buckets[bucketIndex + 1][node].value

hasResult(t, key) == findNode(t, key) # Null

deleteResult(t, key) == deleteFromBucket(t, getBucketIndex(t, key), key)

\* mutant: clear resets this._size and leaves the buckets
clearResult_keepsBuckets(t) ==
  [t EXCEPT !.size = 0]

\* mutant: clear goes back to the default capacity
clearResult_resetsCapacity(t) ==
  [t EXCEPT !.buckets = [b \in 1..DEFAULT_CAPACITY |-> <<>>], !.size = 0,
            !.capacity = DEFAULT_CAPACITY]

\* mutant: clear resets the buckets and leaves this._size
clearResult_keepsSize(t) ==
  [t EXCEPT !.buckets = [b \in 1..t.capacity |-> <<>>]]

clearResult(t) ==
  [t EXCEPT !.buckets = [b \in 1..t.capacity |-> <<>>], !.size = 0]

keysResult(t) == LET ns == forEachNode(t.buckets) IN [i \in 1..Len(ns) |-> ns[i].key]
valuesResult(t) == LET ns == forEachNode(t.buckets) IN [i \in 1..Len(ns) |-> ns[i].value]
\* mutant: only the head of each chain is visited (if for while)
entriesResult_headsOnly(t) ==
  LET ns == forEachNode([b \in 1..Len(t.buckets) |->
                           IF t.buckets[b] = <<>> THEN <<>> ELSE <<t.buckets[b][1]>>])
  IN [i \in 1..Len(ns) |-> <<ns[i].key, ns[i].value>>]

entriesResult(t) ==
  LET ns == forEachNode(t.buckets) IN [i \in 1..Len(ns) |-> <<ns[i].key, ns[i].value>>]

\* ---- the state machine ----
\* op, key: the call; ret, ok, list, threw: what it returned (a value, a
\* boolean, an array) or that it threw; capBefore: this.capacity when it was
\* called; present: the key was present (per the history) when it was called;
\* at: <<position in its chain, length of that chain>> of the node a delete
\* unlinked, <<0, 0>> otherwise
Call(op, key, ret, ok, list, threw) ==
  [op |-> op, key |-> key, ret |-> ret, ok |-> ok, list |-> list, threw |-> threw,
   capBefore |-> capacity, present |-> model[key] # Undefined,
   at |-> IF op = "delete" /\ ok
            THEN << findNodeInBucket(This, getBucketIndex(This, key), key),
                    Len(buckets[getBucketIndex(This, key) + 1]) >>
            ELSE <<0, 0>>]

Store(t) ==
  /\ buckets' = t.buckets
  /\ size' = t.size
  /\ capacity' = t.capacity

\* new CustomHashmap({ initialCapacity, loadFactor, hashFunction, equalsFunction })
constructorWith(initialCapacity, lf, hf, ef) ==
  /\ capacity = Max(MIN_CAPACITY, OrDefault(initialCapacity, DEFAULT_CAPACITY))
  /\ loadFactor = OrDefault(lf, DEFAULT_LOAD_FACTOR)
  /\ hashFunction = OrDefault(hf, Undefined)
  /\ equalsFunction = OrDefault(ef, "identity")
  /\ buckets = [b \in 1..capacity |-> <<>>]
  /\ size = 0

constructor(initialCapacity, lf) == constructorWith(initialCapacity, lf, <<>>, <<>>)

\* the history before the first call; on: the insertion order is recorded
NoHistory(on) ==
  /\ model = [k \in KeyUniverse |-> Undefined]
  /\ everSet = {}
  /\ newKeySets = 0
  /\ deleteTrue = 0
  /\ clearCalled = FALSE
  /\ nOps = 0
  /\ order = [on |-> on, seq |-> <<>>, cap0 |-> IF on THEN capacity ELSE 0]

\* ---- AttachmentsService over the store and the metadata cache ----
\* bound: the number of service calls and external changes
MaxCalls == 3
\* callers: 0 is the framework calling onModuleInit, the others are requests
Requests == {1, 2}
Callers == {0} \cup Requests
Names == {"n1", "n2"}
\* the name of an uploaded file
UploadNames == {"n1"}

\* a row of the attachments table (Attachment entity): size is a bigint
\* column, read back as a decimal string; createdAt is a Date (ms); name
\* stands for the columns that are copied unchanged (filename, originalName,
\* mimeType, metadata)
\* productId is nullable: NullProduct is a row without product
NullProduct == "null"
Products == {"p1", "p2"}

RowOf(id, productId, path, name, isDeleted) ==
  [id |-> id, productId |-> productId, path |-> path, name |-> name, size |-> "2048",
   createdAt |-> 0, isDeleted |-> isDeleted]

\* a row of product "p1"
Row(id, path, name, isDeleted) == RowOf(id, "p1", path, name, isDeleted)

NumberOf == [str \in {"0", "2048"} |-> IF str = "0" THEN 0 ELSE 2048]
toISOString == [ms \in {0} |-> "1970-01-01T00:00:00.000Z"]

entityToDomain(ent) ==
  [id |-> ent.id, productId |-> ent.productId, name |-> ent.name,
   size |-> NumberOf[ent.size], path |-> ent.path, createdAt |-> ent.createdAt]

domainToResponse(d) ==
  [id |-> d.id, productId |-> d.productId, name |-> d.name,
   size |-> d.size, path |-> d.path, createdAt |-> toISOString[d.createdAt]]

\* the response the service builds from a row
Projection(ent) == domainToResponse(entityToDomain(ent))

\* the tables the service can find at startup: empty, one record, one record
\* marked inactive, two records at two paths, two records sharing one path
\* (path is not a unique column), the second one without product
InitialStores ==
  { <<>>,
    << Row(1, PathX, "n1", FALSE) >>,
    << Row(1, PathX, "n1", TRUE) >>,
    << Row(1, PathX, "n1", FALSE), Row(2, PathY, "n1", FALSE) >>,
    << Row(1, PathX, "n1", FALSE), Row(2, PathX, "n2", FALSE) >> }

\* what the store answered to the call a caller is suspended on
NoAnswer == [kind |-> "none", rows |-> <<>>]
Rejected == [kind |-> "error", rows |-> <<>>]
Resolved(rows) == [kind |-> "rows", rows |-> rows]

\* files and done are the locals of the controller's upload: its input and
\* its results so far
Idle == [op |-> "none", pc |-> "idle", path |-> UndefinedKey, name |-> "none",
         ans |-> NoAnswer, reads |-> 0, files |-> <<>>, done |-> <<>>]

NoResponse == Projection(Row(0, UndefinedKey, "none", FALSE))
NoResult == [op |-> "none", path |-> UndefinedKey, kind |-> "none",
             value |-> NoResponse, list |-> <<>>, reads |-> 0, hit |-> FALSE]

\* a call returned value, or threw (kind is then the error)
Outcome(p, kind, value) ==
  [op |-> calls[p].op, path |-> calls[p].path, kind |-> kind,
   value |-> value, list |-> <<>>, reads |-> calls[p].reads, hit |-> FALSE]

NotFoundException == "Attachment not found"
StoreError == "store error"
FsError == "Failed to create directory"

NotStarted(rows) ==
  /\ store = rows
  /\ boot = "init"
  /\ calls = [p \in Callers |-> Idle]
  /\ result = NoResult
  /\ nCalls = 0
  /\ nFindByPath = 0
  /\ nFindAllActive = 0

Init ==
  /\ \E ic \in InitialCapacityOptions, lf \in LoadFactorOptions : constructor(ic, lf)
  /\ model = [k \in KeyUniverse |-> Undefined]
  /\ everSet = {}
  /\ newKeySets = 0
  /\ deleteTrue = 0
  /\ clearCalled = FALSE
  /\ nOps = 0
  /\ order = [on |-> FALSE, seq |-> <<>>, cap0 |-> 0]
  /\ NotStarted(<<>>)
  /\ last = Call("new", UndefinedKey, Undefined, FALSE, <<>>, FALSE)

set(key, value) ==
  /\ nOps < MaxOps
  /\ IF ~validateKey(key)
       THEN /\ last' = Call("set", key, KeyUndefinedError, FALSE, <<>>, TRUE)
            /\ UNCHANGED <<table, config, history, service>>
       ELSE IF getBucketIndexThrows(key)
       THEN /\ last' = Call("set", key, TypeError, FALSE, <<>>, TRUE)
            /\ UNCHANGED <<table, config, history, service>>
       ELSE /\ Store(setResult(This, key, value))
            /\ last' = Call("set", key, value, FALSE, <<>>, FALSE)
            /\ model' = [model EXCEPT ![key] = value]
            /\ everSet' = everSet \cup {key}
            /\ newKeySets' = IF model[key] = Undefined THEN newKeySets + 1 ELSE newKeySets
            /\ nOps' = nOps + 1
            /\ order' = IF order.on /\ ~hasResult(This, key)
                           THEN [order EXCEPT !.seq = Append(@, key)]
                           ELSE order
            /\ UNCHANGED <<service, config, deleteTrue, clearCalled>>

get(key) ==
  /\ last' = IF getBucketIndexThrows(key)
               THEN Call("get", key, TypeError, FALSE, <<>>, TRUE)
               ELSE Call("get", key, getResult(This, key), FALSE, <<>>, FALSE)
  /\ UNCHANGED <<table, config, history, service>>

has(key) ==
  /\ last' = IF getBucketIndexThrows(key)
               THEN Call("has", key, TypeError, FALSE, <<>>, TRUE)
               ELSE Call("has", key, Undefined, hasResult(This, key), <<>>, FALSE)
  /\ UNCHANGED <<table, config, history, service>>

delete(key) ==
  /\ nOps < MaxOps
  /\ IF getBucketIndexThrows(key)
       THEN /\ last' = Call("delete", key, TypeError, FALSE, <<>>, TRUE)
            /\ UNCHANGED <<table, config, history, service>>
       ELSE /\ LET r == deleteResult(This, key)
               IN /\ Store(r[1])
                  /\ last' = Call("delete", key, Undefined, r[2], <<>>, FALSE)
                  /\ deleteTrue' = IF r[2] THEN deleteTrue + 1 ELSE deleteTrue
            /\ model' = [model EXCEPT ![key] = Undefined]
            /\ nOps' = nOps + 1
            /\ order' = [order EXCEPT !.seq = SelectSeq(@, LAMBDA k : ~equals(k, key))]
            /\ UNCHANGED <<service, config, everSet, newKeySets, clearCalled>>

clear ==
  /\ nOps < MaxOps
  /\ Store(clearResult(This))
  /\ last' = Call("clear", UndefinedKey, Undefined, FALSE, <<>>, FALSE)
  /\ model' = [k \in KeyUniverse |-> Undefined]
  /\ clearCalled' = TRUE
  /\ nOps' = nOps + 1
  /\ order' = [order EXCEPT !.seq = <<>>]
  /\ UNCHANGED <<service, config, everSet, newKeySets, deleteTrue>>

keys ==
  /\ last' = Call("keys", UndefinedKey, Undefined, FALSE, keysResult(This), FALSE)
  /\ UNCHANGED <<table, config, history, service>>

values ==
  /\ last' = Call("values", UndefinedKey, Undefined, FALSE, valuesResult(This), FALSE)
  /\ UNCHANGED <<table, config, history, service>>

entries ==
  /\ last' = Call("entries", UndefinedKey, Undefined, FALSE, entriesResult(This), FALSE)
  /\ UNCHANGED <<table, config, history, service>>

\* the visitor receives (value, key) per node, in the same traversal
forEach ==
  /\ last' = Call("forEach", UndefinedKey, Undefined, FALSE,
                  [i \in 1..Len(entriesResult(This)) |->
                     <<entriesResult(This)[i][2], entriesResult(This)[i][1]>>], FALSE)
  /\ UNCHANGED <<table, config, history, service>>

Next ==
  \/ \E k \in AllKeys, v \in Values : set(k, v)
  \/ \E k \in AllKeys : get(k)
  \/ \E k \in AllKeys : has(k)
  \/ \E k \in AllKeys : delete(k)
  \/ clear
  \/ keys
  \/ values
  \/ entries
  \/ forEach

Spec == Init /\ [][Next]_vars

\* the same table, called with keys of every kind
NextOtherKeys ==
  \/ \E k \in OtherKeys, v \in Values : set(k, v)
  \/ \E k \in OtherKeys : get(k)
  \/ \E k \in OtherKeys : has(k)
  \/ \E k \in OtherKeys : delete(k)
  \/ clear

SpecOtherKeys == Init /\ [][NextOtherKeys]_vars

\* a table constructed with the given options, before its first call
New(initialCapacity, lf, hf, ef, on) ==
  /\ constructorWith(initialCapacity, lf, hf, ef)
  /\ NoHistory(on)
  /\ NotStarted(<<>>)
  /\ last = Call("new", UndefinedKey, Undefined, FALSE, <<>>, FALSE)

\* -- the table with a user-supplied hash function --
HashFunctions == {Undefined, "sameBucket", "negative"}

InitHash == \E hf \in HashFunctions : New(<<2>>, <<>>, <<hf>>, <<>>, FALSE)

NextHash ==
  \/ \E k \in Keys, v \in Values : set(k, v)
  \/ \E k \in Keys : get(k)
  \/ \E k \in Keys : has(k)
  \/ \E k \in Keys : delete(k)

SpecHash == InitHash /\ [][NextHash]_vars

\* -- getBucketIndex over capacities and hash functions: lookups on an empty table --
IndexCapacities == {1, 2, 3, 5, 7, 8, 10, 16, 64, 100}

InitIndex ==
  \E c \in IndexCapacities, hf \in HashFunctions : New(<<c>>, <<>>, <<hf>>, <<>>, FALSE)

NextIndex ==
  \/ \E k \in AllKeys \cup {NullKey, CircularKey} : get(k)
  \/ \E k \in AllKeys \cup {NullKey, CircularKey} : has(k)

SpecIndex == InitIndex /\ [][NextIndex]_vars

\* -- the table with a user-supplied equality function (and the default hash) --
\* default options; initialCapacity 64; initialCapacity 32 growing to 64 on
\* the second key (loadFactor 1/32)
InitEquals ==
  \E o \in { << <<>>, <<>> >>, << <<64>>, <<>> >>, << <<32>>, << <<1, 32>> >> >> } :
    New(o[1], o[2], <<>>, <<"caseInsensitive">>, FALSE)

NextEquals ==
  \/ \E k \in EqualsKeys, v \in Values : set(k, v)
  \/ \E k \in EqualsKeys : get(k)
  \/ \E k \in EqualsKeys : has(k)
  \/ \E k \in EqualsKeys : delete(k)
  \/ clear

SpecEquals == InitEquals /\ [][NextEquals]_vars

\* -- the table with user-supplied functions that can throw --
UserError == "error thrown by the user-supplied function"

\* the table a set leaves behind when the hash function throws on the j-th
\* node that resize re-inserts: the new buckets hold the j - 1 nodes before it
rehashInterrupted(t, newCapacity, j) ==
  LET cap == Max(MIN_CAPACITY, newCapacity)
  IN rehashFrom([buckets |-> [b \in 1..cap |-> <<>>], size |-> 0, capacity |-> cap],
                SubSeq(forEachNode(t.buckets), 1, j - 1), 1)

\* set when this.hashFunction or this.equalsFunction throws: in getBucketIndex,
\* in the scan of findNodeInBucket, or in the getBucketIndex of a node that
\* rehashAllNodes re-inserts
set_userFunctionThrows(key, value) ==
  /\ nOps < MaxOps
  /\ validateKey(key)
  /\ LET bucketIndex == getBucketIndex(This, key)
         inserted == insertNewNode(This, bucketIndex, key, value)
     IN \/ /\ hashFunction = "flaky"
           /\ UNCHANGED table
        \/ /\ equalsFunction = "flaky"
           /\ buckets[bucketIndex + 1] # <<>>
           /\ UNCHANGED table
        \/ /\ hashFunction = "flaky"
           /\ findNodeInBucket(This, bucketIndex, key) = Null
           /\ inserted.size * loadFactor[2] > loadFactor[1] * inserted.capacity
           /\ \E j \in 1..inserted.size :
                Store(rehashInterrupted(inserted, inserted.capacity * RESIZE_MULTIPLIER, j))
  /\ last' = Call("set", key, UserError, FALSE, <<>>, TRUE)
  /\ nOps' = nOps + 1
  /\ UNCHANGED <<service, config, model, everSet, newKeySets, deleteTrue, clearCalled, order>>

InitFlaky ==
  \E ic \in { <<0>>, <<2>> }, f \in { <<"flaky", "identity">>, <<"sameBucket", "flaky">> } :
    New(ic, <<>>, <<f[1]>>, <<f[2]>>, FALSE)

NextFlaky ==
  \/ \E k \in Keys, v \in Values : set(k, v)
  \/ \E k \in Keys, v \in Values : set_userFunctionThrows(k, v)
  \/ clear

SpecFlaky == InitFlaky /\ [][NextFlaky]_vars

\* -- the table under several load factors, from small capacities --
InitLoad ==
  \E ic \in { <<0>>, <<2>> }, lf \in { <<1, 4>>, <<1, 2>>, <<3, 4>>, <<1, 1>> } :
    New(ic, <<lf>>, <<>>, <<>>, FALSE)

NextLoad ==
  \/ \E k \in Keys, v \in Values : set(k, v)
  \/ \E k \in Keys : delete(k)
  \/ clear

SpecLoad == InitLoad /\ [][NextLoad]_vars

\* -- HashUtils.defaultHash called on strings --
\* code units: "a", "z" and 0xFFFF
CharCodes == {97, 122, 65535}
Strings == UNION { [1..n -> CharCodes] : n \in 0..MaxLen }

\* HashUtils.defaultHash(str) for a string: last.ret is the number returned
HashUtils_defaultHash(str) ==
  /\ last' = [op |-> "defaultHash", key |-> StringKey(str), ret |-> hashString(str),
              ok |-> FALSE, list |-> <<>>, threw |-> FALSE, capBefore |-> capacity,
              present |-> FALSE, at |-> <<0, 0>>]
  /\ UNCHANGED <<table, config, history, service>>

InitDefaultHash == New(<<>>, <<>>, <<>>, <<>>, FALSE)

NextDefaultHash == \E str \in Strings : HashUtils_defaultHash(str)

SpecDefaultHash == InitDefaultHash /\ [][NextDefaultHash]_vars

\* -- the table with the insertion order of its keys recorded --
InitOrder == \E ic \in { <<2>>, <<4>> } : New(ic, <<>>, <<>>, <<>>, TRUE)

NextOrder ==
  \/ \E k \in Keys, v \in Values : set(k, v)
  \/ \E k \in Keys : delete(k)
  \/ clear
  \/ keys
  \/ values
  \/ entries
  \/ forEach

SpecOrder == InitOrder /\ [][NextOrder]_vars

\* ---- AttachmentsService: the calls ----
\* the cache is the provider of HashmapModule: new CustomHashmap()
InitService ==
  /\ constructor(<<>>, <<>>)
  /\ model = [k \in KeyUniverse |-> Undefined]
  /\ everSet = {}
  /\ newKeySets = 0
  /\ deleteTrue = 0
  /\ clearCalled = FALSE
  /\ nOps = 0
  /\ order = [on |-> FALSE, seq |-> <<>>, cap0 |-> 0]
  /\ \E rows \in InitialStores : NotStarted(rows)
  /\ last = Call("new", UndefinedKey, Undefined, FALSE, <<>>, FALSE)

Suspend(p, op, pc, path, name, reads) ==
  calls' = [calls EXCEPT ![p] = [op |-> op, pc |-> pc, path |-> path, name |-> name,
                                 ans |-> NoAnswer, reads |-> reads,
                                 files |-> <<>>, done |-> <<>>]]

Answer(p, ans) ==
  calls' = [calls EXCEPT ![p].pc = "resume", ![p].ans = ans]

Finish(p, kind, value) ==
  /\ result' = Outcome(p, kind, value)
  /\ calls' = [calls EXCEPT ![p] = Idle]

\* a new call is taken by the first caller that has none in flight (the
\* request handlers are interchangeable)
Free(p) ==
  /\ calls[p].pc = "idle"
  /\ \A q \in Requests : q < p => calls[q].pc # "idle"

hashmapUntouched == UNCHANGED <<table, config, history, last>>

\* -- AttachmentsRepository: the store executes the query a caller awaits --
ActiveRows == { i \in 1..Len(store) : ~store[i].isDeleted }

\* the find has no ORDER BY, the order of the rows is the store's choice: the
\* active rows come back by ascending or by descending id
Orders(ids) ==
  LET n == Cardinality(ids)
      Below(x) == Cardinality({ y \in ids : y < x })
  IN { [i \in 1..n |-> CHOOSE x \in ids : Below(x) = i - 1],
       [i \in 1..n |-> CHOOSE x \in ids : Below(x) = n - i] }

findAllActive(p) ==
  /\ calls[p].pc = "findAllActive"
  /\ \/ Answer(p, Rejected)
     \/ \E o \in Orders(ActiveRows) :
          Answer(p, Resolved([i \in DOMAIN o |-> store[o[i]]]))
  /\ UNCHANGED <<store, boot, result, nCalls, nFindByPath, nFindAllActive>>
  /\ hashmapUntouched

\* findOne({ where: { path } }): some row at that path, deleted or not, or null
findByPath(p) ==
  /\ calls[p].pc = "findByPath"
  /\ \/ Answer(p, Rejected)
     \/ \E i \in 1..Len(store) :
          /\ store[i].path = calls[p].path
          /\ Answer(p, Resolved(<<store[i]>>))
     \/ /\ \A i \in 1..Len(store) : store[i].path # calls[p].path
        /\ Answer(p, Resolved(<<>>))
  /\ UNCHANGED <<store, boot, result, nCalls, nFindByPath, nFindAllActive>>
  /\ hashmapUntouched

\* find({ where: { productId, isDeleted: false } }); the caller's name field
\* holds the productId it asked for
findByProductId(p) ==
  /\ calls[p].pc = "findByProductId"
  /\ \/ Answer(p, Rejected)
     \/ \E o \in Orders({ i \in ActiveRows : store[i].productId = calls[p].name }) :
          Answer(p, Resolved([i \in DOMAIN o |-> store[o[i]]]))
  /\ UNCHANGED <<store, boot, result, nCalls, nFindByPath, nFindAllActive>>
  /\ hashmapUntouched

\* repo.create + repo.save: the saved row, with its generated id
create(p) ==
  /\ calls[p].pc = "create"
  /\ \/ /\ Answer(p, Rejected)
        /\ UNCHANGED store
     \/ LET saved == Row(Len(store) + 1, calls[p].path, calls[p].name, FALSE)
        IN /\ store' = Append(store, saved)
           /\ Answer(p, Resolved(<<saved>>))
  /\ UNCHANGED <<boot, result, nCalls, nFindByPath, nFindAllActive>>
  /\ hashmapUntouched

\* changes that bypass the service: a record is rewritten, or marked inactive
externalUpdate(id) ==
  /\ boot = "done"
  /\ nCalls < MaxCalls
  /\ id \in ActiveRows
  /\ \E n \in Names :
       /\ n # store[id].name
       /\ store' = [store EXCEPT ![id].name = n]
  /\ nCalls' = nCalls + 1
  /\ UNCHANGED <<boot, calls, result, nFindByPath, nFindAllActive>>
  /\ hashmapUntouched

\* mutant: marking a record inactive also removes its path from the cache
softDelete_evicts(id) ==
  /\ boot = "done"
  /\ nCalls < MaxCalls
  /\ id \in ActiveRows
  /\ store' = [store EXCEPT ![id].isDeleted = TRUE]
  /\ nCalls' = nCalls + 1
  /\ Store(deleteResult(This, store[id].path)[1])
  /\ UNCHANGED <<boot, calls, result, nFindByPath, nFindAllActive>>
  /\ UNCHANGED <<config, history, last>>

softDelete(id) ==
  /\ boot = "done"
  /\ nCalls < MaxCalls
  /\ id \in ActiveRows
  /\ store' = [store EXCEPT ![id].isDeleted = TRUE]
  /\ nCalls' = nCalls + 1
  /\ UNCHANGED <<boot, calls, result, nFindByPath, nFindAllActive>>
  /\ hashmapUntouched

\* -- AttachmentsService --
RECURSIVE setEach_firstOnly(_, _, _)
\* mutant: only the first record is loaded
setEach_firstOnly(t, recs, i) ==
  IF i > Len(recs) \/ i > 1 THEN t
  ELSE setEach_firstOnly(setResult(t, recs[i].path, Projection(recs[i])), recs, i + 1)

RECURSIVE setEach_ifAbsent(_, _, _)
\* mutant: a record whose path is cached already is skipped
setEach_ifAbsent(t, recs, i) ==
  IF i > Len(recs) THEN t
  ELSE IF hasResult(t, recs[i].path) THEN setEach_ifAbsent(t, recs, i + 1)
  ELSE setEach_ifAbsent(setResult(t, recs[i].path, Projection(recs[i])), recs, i + 1)

RECURSIVE setEach_blind(_, _, _)
\* mutant: every record is inserted as a new node, its path is not looked up
setEach_blind(t, recs, i) ==
  IF i > Len(recs) THEN t
  ELSE setEach_blind(resizeIfNeeded(insertNewNode(t, getBucketIndex(t, recs[i].path),
                                                  recs[i].path, Projection(recs[i]))),
                     recs, i + 1)

RECURSIVE setEach(_, _, _)
\* recs.forEach(r => this.hashmap.set(d.path, this.domainToResponse(d)))
setEach(t, recs, i) ==
  IF i > Len(recs) THEN t
  ELSE setEach(setResult(t, recs[i].path, Projection(recs[i])), recs, i + 1)

\* bootstrapHashmap up to its await
bootstrapHashmap_call(p, op) ==
  /\ Free(p)
  /\ Suspend(p, op, "findAllActive", UndefinedKey, "none", 0)
  /\ nFindAllActive' = nFindAllActive + 1

\* bootstrapHashmap after its await: TRUE when it returned, FALSE when it threw
bootstrapHashmap_resume(p) ==
  IF calls[p].ans.kind = "error"
    THEN /\ Finish(p, StoreError, NoResponse)
         /\ UNCHANGED table
    ELSE /\ Store(setEach(This, calls[p].ans.rows, 1))
         /\ Finish(p, "returned", NoResponse)

\* mutant: bootstrapHashmap is started and not awaited, so onModuleInit
\* resolves at once
onModuleInit_call_notAwaited ==
  /\ boot = "init"
  /\ bootstrapHashmap_call(0, "onModuleInit")
  /\ boot' = "done"
  /\ UNCHANGED <<store, result, nCalls, nFindByPath>>
  /\ hashmapUntouched

onModuleInit_call ==
  /\ boot = "init"
  /\ bootstrapHashmap_call(0, "onModuleInit")
  /\ UNCHANGED <<store, boot, result, nCalls, nFindByPath>>
  /\ hashmapUntouched

\* mutant: a failed bootstrap is ignored like a failed mkdir
onModuleInit_resume_swallows ==
  /\ calls[0].op = "onModuleInit"
  /\ calls[0].pc = "resume"
  /\ bootstrapHashmap_resume(0)
  /\ boot' = "done"
  /\ UNCHANGED <<store, nCalls, nFindByPath, nFindAllActive>>
  /\ UNCHANGED <<config, history, last>>

\* after the bootstrap: mkdir of the uploads root, whose failure is ignored
onModuleInit_resume ==
  /\ calls[0].op = "onModuleInit"
  /\ calls[0].pc = "resume"
  /\ bootstrapHashmap_resume(0)
  /\ boot' = IF calls[0].ans.kind = "error" THEN "failed" ELSE "done"
  /\ UNCHANGED <<store, nCalls, nFindByPath, nFindAllActive>>
  /\ UNCHANGED <<config, history, last>>

bootstrapHashmap(p) ==
  /\ boot = "done"
  /\ nCalls < MaxCalls
  /\ bootstrapHashmap_call(p, "bootstrapHashmap")
  /\ nCalls' = nCalls + 1
  /\ UNCHANGED <<store, boot, result, nFindByPath>>
  /\ hashmapUntouched

bootstrapHashmap_resumed(p) ==
  /\ calls[p].op = "bootstrapHashmap"
  /\ calls[p].pc = "resume"
  /\ bootstrapHashmap_resume(p)
  /\ UNCHANGED <<store, boot, nCalls, nFindByPath, nFindAllActive>>
  /\ UNCHANGED <<config, history, last>>

\* getByPath up to its await: a hit returns at once, a miss asks the store
getByPath(p, pathKey) ==
  /\ boot = "done"
  /\ nCalls < MaxCalls
  /\ Free(p)
  /\ nCalls' = nCalls + 1
  /\ IF hasResult(This, pathKey)
       THEN /\ result' = [op |-> "getByPath", path |-> pathKey,
                          kind |-> "returned", value |-> getResult(This, pathKey),
                          list |-> <<>>, reads |-> 0, hit |-> TRUE]
            /\ UNCHANGED <<calls, nFindByPath>>
       ELSE /\ Suspend(p, "getByPath", "findByPath", pathKey, "none", 1)
            /\ nFindByPath' = nFindByPath + 1
            /\ UNCHANGED result
  /\ UNCHANGED <<store, boot, nFindAllActive>>
  /\ hashmapUntouched

\* mutant: the response built on a miss is returned and not cached
getByPath_resume_noInsert(p) ==
  /\ calls[p].op = "getByPath"
  /\ calls[p].pc = "resume"
  /\ IF calls[p].ans.kind = "error"
       THEN Finish(p, StoreError, NoResponse)
       ELSE IF calls[p].ans.rows = <<>>
         THEN Finish(p, NotFoundException, NoResponse)
         ELSE Finish(p, "returned", Projection(calls[p].ans.rows[1]))
  /\ UNCHANGED <<store, boot, nCalls, nFindByPath, nFindAllActive>>
  /\ UNCHANGED <<table, config, history, last>>

\* mutant: a key the store does not know is remembered in the cache
getByPath_resume_negativeEntry(p) ==
  /\ calls[p].op = "getByPath"
  /\ calls[p].pc = "resume"
  /\ IF calls[p].ans.kind = "error"
       THEN /\ Finish(p, StoreError, NoResponse)
            /\ UNCHANGED table
       ELSE IF calls[p].ans.rows = <<>>
         THEN /\ Store(setResult(This, calls[p].path, NoResponse))
              /\ Finish(p, NotFoundException, NoResponse)
         ELSE LET resp == Projection(calls[p].ans.rows[1])
              IN /\ Store(setResult(This, calls[p].path, resp))
                 /\ Finish(p, "returned", resp)
  /\ UNCHANGED <<store, boot, nCalls, nFindByPath, nFindAllActive>>
  /\ UNCHANGED <<config, history, last>>

\* mutant: the response is inserted without looking for the key
getByPath_resume_blindInsert(p) ==
  /\ calls[p].op = "getByPath"
  /\ calls[p].pc = "resume"
  /\ IF calls[p].ans.kind = "error"
       THEN /\ Finish(p, StoreError, NoResponse)
            /\ UNCHANGED table
       ELSE IF calls[p].ans.rows = <<>>
         THEN /\ Finish(p, NotFoundException, NoResponse)
              /\ UNCHANGED table
         ELSE LET resp == Projection(calls[p].ans.rows[1])
              IN /\ Store(resizeIfNeeded(insertNewNode(This, getBucketIndex(This, calls[p].path),
                                                       calls[p].path, resp)))
                 /\ Finish(p, "returned", resp)
  /\ UNCHANGED <<store, boot, nCalls, nFindByPath, nFindAllActive>>
  /\ UNCHANGED <<config, history, last>>

getByPath_resume(p) ==
  /\ calls[p].op = "getByPath"
  /\ calls[p].pc = "resume"
  /\ IF calls[p].ans.kind = "error"
       THEN /\ Finish(p, StoreError, NoResponse)
            /\ UNCHANGED table
       ELSE IF calls[p].ans.rows = <<>>
         THEN /\ Finish(p, NotFoundException, NoResponse)
              /\ UNCHANGED table
         ELSE LET resp == Projection(calls[p].ans.rows[1])
              IN /\ Store(setResult(This, calls[p].path, resp))
                 /\ Finish(p, "returned", resp)
  /\ UNCHANGED <<store, boot, nCalls, nFindByPath, nFindAllActive>>
  /\ UNCHANGED <<config, history, last>>

\* mutant: the saved record is returned and not cached
afterCreate_noInsert(p) ==
  /\ calls[p].pc = "resume"
  /\ IF calls[p].ans.kind = "error"
       THEN Finish(p, StoreError, NoResponse)
       ELSE Finish(p, "returned", Projection(calls[p].ans.rows[1]))
  /\ UNCHANGED <<store, boot, nCalls, nFindByPath, nFindAllActive>>
  /\ UNCHANGED <<table, config, history, last>>

\* mutant: the cache is written from the request even when create rejected
afterCreate_cacheFirst(p) ==
  /\ calls[p].pc = "resume"
  /\ IF calls[p].ans.kind = "error"
       THEN /\ Store(setResult(This, calls[p].path,
                               Projection(Row(0, calls[p].path, calls[p].name, FALSE))))
            /\ Finish(p, StoreError, NoResponse)
       ELSE LET resp == Projection(calls[p].ans.rows[1])
            IN /\ Store(setResult(This, resp.path, resp))
               /\ Finish(p, "returned", resp)
  /\ UNCHANGED <<store, boot, nCalls, nFindByPath, nFindAllActive>>
  /\ UNCHANGED <<config, history, last>>

\* after create resolved or rejected, in registerFile and registerFileToFolder
afterCreate(p) ==
  /\ calls[p].pc = "resume"
  /\ IF calls[p].ans.kind = "error"
       THEN /\ Finish(p, StoreError, NoResponse)
            /\ UNCHANGED table
       ELSE LET resp == Projection(calls[p].ans.rows[1])
            IN /\ Store(setResult(This, resp.path, resp))
               /\ Finish(p, "returned", resp)
  /\ UNCHANGED <<store, boot, nCalls, nFindByPath, nFindAllActive>>
  /\ UNCHANGED <<config, history, last>>

\* mutant: the cache is written from the request before create is awaited
registerFile_cacheFirst(p, relPath, name) ==
  /\ boot = "done"
  /\ nCalls < MaxCalls
  /\ Free(p)
  /\ nCalls' = nCalls + 1
  /\ Suspend(p, "registerFile", "create", relPath, name, 0)
  /\ Store(setResult(This, relPath, Projection(Row(Len(store) + 1, relPath, name, FALSE))))
  /\ UNCHANGED <<store, boot, result, nFindByPath, nFindAllActive>>
  /\ UNCHANGED <<config, history, last>>

\* relPath is the uploaded file's path relative to the working directory
registerFile(p, relPath, name) ==
  /\ boot = "done"
  /\ nCalls < MaxCalls
  /\ Free(p)
  /\ nCalls' = nCalls + 1
  /\ Suspend(p, "registerFile", "create", relPath, name, 0)
  /\ UNCHANGED <<store, boot, result, nFindByPath, nFindAllActive>>
  /\ hashmapUntouched

registerFile_resume(p) ==
  /\ calls[p].op = "registerFile"
  /\ afterCreate(p)

\* the file is first moved under the target folder (mkdir, rename or copy):
\* when that fails the call throws before it reaches the store
registerFileToFolder(p, relPath, name) ==
  /\ boot = "done"
  /\ nCalls < MaxCalls
  /\ Free(p)
  /\ nCalls' = nCalls + 1
  /\ \/ /\ result' = [op |-> "registerFileToFolder", path |-> relPath,
                      kind |-> FsError, value |-> NoResponse, list |-> <<>>,
                      reads |-> 0, hit |-> FALSE]
        /\ UNCHANGED calls
     \/ /\ Suspend(p, "registerFileToFolder", "create", relPath, name, 0)
        /\ UNCHANGED result
  /\ UNCHANGED <<store, boot, nFindByPath, nFindAllActive>>
  /\ hashmapUntouched

registerFileToFolder_resume(p) ==
  /\ calls[p].op = "registerFileToFolder"
  /\ afterCreate(p)

\* -- AttachmentsController.upload --
\* the inputs of upload: the files, each named by the path it is stored at;
\* up to MaxFiles files at alternating paths, or two files at one path
MaxFiles == 3
UploadFiles ==
  { [i \in 1..n |-> IF i % 2 = 1 THEN PathY ELSE PathX] : n \in 0..MaxFiles }
    \cup { <<PathX, PathX>> }

\* mutant: a file whose registration failed is skipped, the loop goes on
upload_loop_skipsFailures(p, files, done, failed) ==
  LET results == IF failed # "none" THEN Append(done, NoResponse) ELSE done
  IN IF Len(results) = Len(files)
       THEN /\ result' = [op |-> "upload", path |-> UndefinedKey, kind |-> "returned",
                          value |-> NoResponse, list |-> results, reads |-> Len(results),
                          hit |-> FALSE]
            /\ calls' = [calls EXCEPT ![p] = Idle]
       ELSE \/ /\ result' = [op |-> "upload", path |-> files[Len(results) + 1],
                              kind |-> FsError, value |-> NoResponse, list |-> <<>>,
                              reads |-> Len(results) + 1, hit |-> FALSE]
               /\ calls' = [calls EXCEPT ![p] = Idle]
            \/ /\ calls' = [calls EXCEPT ![p] =
                              [op |-> "upload", pc |-> "create",
                               path |-> files[Len(results) + 1], name |-> "n1",
                               ans |-> NoAnswer, reads |-> Len(results) + 1,
                               files |-> files, done |-> results]]
               /\ UNCHANGED result

\* for (const f of files) { const r = await registerFileToFolder(f, ...);
\* results.push(r); } return results -- from the iteration after done, up to
\* the next await; failed is the error the last registration threw, or "none"
upload_loop(p, files, done, failed) ==
  IF failed # "none"
    THEN /\ result' = [op |-> "upload", path |-> calls[p].path, kind |-> failed,
                       value |-> NoResponse, list |-> <<>>, reads |-> calls[p].reads,
                       hit |-> FALSE]
         /\ calls' = [calls EXCEPT ![p] = Idle]
    ELSE IF Len(done) = Len(files)
      THEN /\ result' = [op |-> "upload", path |-> UndefinedKey, kind |-> "returned",
                         value |-> NoResponse, list |-> done, reads |-> Len(done),
                         hit |-> FALSE]
           /\ calls' = [calls EXCEPT ![p] = Idle]
      ELSE \* registerFileToFolder: the move fails, or create is awaited
           \/ /\ result' = [op |-> "upload", path |-> files[Len(done) + 1],
                             kind |-> FsError, value |-> NoResponse, list |-> <<>>,
                             reads |-> Len(done) + 1, hit |-> FALSE]
              /\ calls' = [calls EXCEPT ![p] = Idle]
           \/ /\ calls' = [calls EXCEPT ![p] =
                             [op |-> "upload", pc |-> "create", path |-> files[Len(done) + 1],
                              name |-> "n1", ans |-> NoAnswer, reads |-> Len(done) + 1,
                              files |-> files, done |-> done]]
              /\ UNCHANGED result

upload(p, files) ==
  /\ boot = "done"
  /\ nCalls < MaxCalls
  /\ Free(p)
  /\ nCalls' = nCalls + 1
  /\ upload_loop(p, files, <<>>, "none")
  /\ UNCHANGED <<store, boot, nFindByPath, nFindAllActive>>
  /\ hashmapUntouched

\* registerFileToFolder after create, then the loop goes on
upload_resume(p) ==
  /\ calls[p].op = "upload"
  /\ calls[p].pc = "resume"
  /\ IF calls[p].ans.kind = "error"
       THEN /\ upload_loop(p, calls[p].files, calls[p].done, StoreError)
            /\ UNCHANGED table
       ELSE LET resp == Projection(calls[p].ans.rows[1])
            IN /\ Store(setResult(This, resp.path, resp))
               /\ upload_loop(p, calls[p].files, Append(calls[p].done, resp), "none")
  /\ UNCHANGED <<store, boot, nCalls, nFindByPath, nFindAllActive>>
  /\ UNCHANGED <<config, history, last>>

\* listByProduct up to its await
listByProduct(p, productId) ==
  /\ boot = "done"
  /\ nCalls < MaxCalls
  /\ Free(p)
  /\ nCalls' = nCalls + 1
  /\ Suspend(p, "listByProduct", "findByProductId", UndefinedKey, productId, 0)
  /\ UNCHANGED <<store, boot, result, nFindByPath, nFindAllActive>>
  /\ hashmapUntouched

\* mutant: the records are projected and returned, the cache is not written
listByProduct_resume_noInsert(p) ==
  /\ calls[p].op = "listByProduct"
  /\ calls[p].pc = "resume"
  /\ IF calls[p].ans.kind = "error"
       THEN Finish(p, StoreError, NoResponse)
       ELSE LET recs == calls[p].ans.rows
            IN /\ result' = [Outcome(p, "returned", NoResponse) EXCEPT
                               !.list = [i \in DOMAIN recs |-> Projection(recs[i])]]
               /\ calls' = [calls EXCEPT ![p] = Idle]
  /\ UNCHANGED <<store, boot, nCalls, nFindByPath, nFindAllActive>>
  /\ UNCHANGED <<table, config, history, last>>

\* recs.map(r => { ...; this.hashmap.set(resp.path, resp); return resp; })
listByProduct_resume(p) ==
  /\ calls[p].op = "listByProduct"
  /\ calls[p].pc = "resume"
  /\ IF calls[p].ans.kind = "error"
       THEN /\ Finish(p, StoreError, NoResponse)
            /\ UNCHANGED table
       ELSE LET recs == calls[p].ans.rows
            IN /\ Store(setEach(This, recs, 1))
               /\ result' = [Outcome(p, "returned", NoResponse) EXCEPT
                               !.list = [i \in DOMAIN recs |-> Projection(recs[i])]]
               /\ calls' = [calls EXCEPT ![p] = Idle]
  /\ UNCHANGED <<store, boot, nCalls, nFindByPath, nFindAllActive>>
  /\ UNCHANGED <<config, history, last>>

NextService ==
  \/ onModuleInit_call
  \/ onModuleInit_resume
  \/ \E p \in Requests : bootstrapHashmap(p)
  \/ \E p \in Requests : bootstrapHashmap_resumed(p)
  \/ \E p \in Requests, k \in Paths : getByPath(p, k)
  \/ \E p \in Requests : getByPath_resume(p)
  \/ \E p \in Requests, k \in StoredPaths, n \in UploadNames : registerFile(p, k, n)
  \/ \E p \in Requests : registerFile_resume(p)
  \/ \E p \in Requests, k \in StoredPaths, n \in UploadNames : registerFileToFolder(p, k, n)
  \/ \E p \in Requests : registerFileToFolder_resume(p)
  \/ \E p \in Callers : findAllActive(p)
  \/ \E p \in Callers : findByPath(p)
  \/ \E p \in Callers : create(p)
  \/ \E id \in 1..(2 + MaxCalls) : externalUpdate(id)
  \/ \E id \in 1..(2 + MaxCalls) : softDelete(id)

SpecService == InitService /\ [][NextService]_vars

\* the service with listByProduct as well, over a store with one record and
\* over one with a record of product "p1" and a record without product
CacheStores ==
  { << Row(1, PathX, "n1", FALSE) >>,
    << Row(1, PathX, "n1", FALSE), RowOf(2, NullProduct, PathY, "n1", FALSE) >> }

InitCache ==
  /\ constructor(<<>>, <<>>)
  /\ NoHistory(FALSE)
  /\ \E rows \in CacheStores : NotStarted(rows)
  /\ last = Call("new", UndefinedKey, Undefined, FALSE, <<>>, FALSE)

NextCache ==
  \/ NextService
  \/ \E p \in Requests, pr \in Products : listByProduct(p, pr)
  \/ \E p \in Requests : listByProduct_resume(p)
  \/ \E p \in Callers : findByProductId(p)

SpecCache == InitCache /\ [][NextCache]_vars

\* -- the service over a store whose records are all inactive, so that
\* startup caches nothing: one record, or two records sharing one path --
MissStores ==
  { << Row(1, PathX, "n1", TRUE) >>,
    << Row(1, PathX, "n1", TRUE), Row(2, PathX, "n2", TRUE) >> }

InitMiss ==
  /\ constructor(<<>>, <<>>)
  /\ NoHistory(FALSE)
  /\ \E rows \in MissStores : NotStarted(rows)
  /\ last = Call("new", UndefinedKey, Undefined, FALSE, <<>>, FALSE)

SpecMiss == InitMiss /\ [][NextService]_vars

\* -- AttachmentsService.buildDirectoryTree over the directory listings --
\* the names of directory entries: "a", "ab", "b", "B"
TreeNames == { <<97>>, <<97, 98>>, <<98>>, <<66>> }
\* what a Dirent is: isDirectory(), isFile(), or neither (a link, a socket)
EntryKinds == {"folder", "file", "other"}
\* bound: the number of entries of the uploads directory
MaxEntries == 3

\* the listings readdir can give: up to n entries with distinct names, in
\* any order
Listings(names, kinds, n) ==
  UNION { { l \in [1..k -> [name : names, kind : kinds]] :
              \A i, j \in 1..k : l[i].name = l[j].name => i = j } : k \in 0..n }

\* the directory tree on disk: the listing of the uploads directory, and the
\* listing of each of its folders (whose own folders are empty)
Disks ==
  [ root : Listings(TreeNames, EntryKinds, MaxEntries),
    sub : Listings({ <<97>>, <<66>> }, {"folder", "file"}, 2) ]

\* path.resolve(process.cwd(), 'uploads'), as the list of its components
uploadsRoot == << <<117, 112, 108, 111, 97, 100, 115>> >>

\* fs.promises.readdir(dirPath, { withFileTypes: true })
readdir(disk, dirPath) ==
  IF Len(dirPath) = 1 THEN disk.root
  ELSE IF Len(dirPath) = 2 THEN disk.sub
  ELSE <<>>

\* the weight of a code unit at a level of the collation of localeCompare,
\* for names made of ASCII letters: 1 is the letter whatever its case, 3 the
\* case (lower case first); level 0 is the code unit itself
weight(c, level) ==
  IF level = 1 THEN (IF c \in 65..90 THEN c + 32 ELSE c)
  ELSE IF level = 3 THEN (IF c \in 65..90 THEN 1 ELSE 0)
  ELSE c

RECURSIVE compareAt(_, _, _, _)
\* the comparison of x and y from position i by the weights of a level: -1, 0, 1
compareAt(x, y, i, level) ==
  IF i > Len(x) /\ i > Len(y) THEN 0
  ELSE IF i > Len(x) THEN -1
  ELSE IF i > Len(y) THEN 1
  ELSE IF weight(x[i], level) < weight(y[i], level) THEN -1
  ELSE IF weight(x[i], level) > weight(y[i], level) THEN 1
  ELSE compareAt(x, y, i + 1, level)

\* a.localeCompare(b) in the default (English or root) locale: the letters
\* decide, their case breaks ties
localeCompare(x, y) ==
  IF compareAt(x, y, 1, 1) # 0 THEN compareAt(x, y, 1, 1) ELSE compareAt(x, y, 1, 3)

\* mutant: the nodes are compared by name whatever their type
compareNodes_byNameOnly(a, b) == localeCompare(a.name, b.name)

\* (a, b) => a.type === b.type ? a.name.localeCompare(b.name)
\*                              : a.type === 'folder' ? -1 : 1
compareNodes(a, b) ==
  IF a.type = b.type THEN localeCompare(a.name, b.name)
  ELSE IF a.type = "folder" THEN -1 ELSE 1

RECURSIVE sortFrom(_, _, _)
\* nodes.sort(compare): a stable sort, here by insertion of nodes[i], ... into
\* the sorted list
sortFrom(sorted, nodes, i) ==
  IF i > Len(nodes) THEN sorted
  ELSE LET n == nodes[i]
           k == Cardinality({ j \in 1..Len(sorted) : compareNodes(sorted[j], n) <= 0 })
       IN sortFrom(SubSeq(sorted, 1, k) \o <<n>> \o SubSeq(sorted, k + 1, Len(sorted)),
                   nodes, i + 1)

RECURSIVE walk(_, _)
RECURSIVE walkFrom(_, _, _, _)
\* the loop of walk over the entries from the i-th: folders are walked, files
\* listed, other entries left out
walkFrom(disk, dirPath, dirents, i) ==
  IF i > Len(dirents) THEN <<>>
  ELSE LET e == dirents[i]
           full == Append(dirPath, e.name)
           rest == walkFrom(disk, dirPath, dirents, i + 1)
       IN IF e.kind = "folder"
            THEN << [name |-> e.name, path |-> full, type |-> "folder",
                     children |-> walk(disk, full)] >> \o rest
          ELSE IF e.kind = "file"
            THEN << [name |-> e.name, path |-> full, type |-> "file"] >> \o rest
          ELSE rest

walk(disk, dirPath) ==
  sortFrom(<<>>, walkFrom(disk, dirPath, readdir(disk, dirPath), 1), 1)

\* the first call of a run, over any directory tree the disk can hold:
\* readdir resolves at every level, or rejects (the call then rejects)
buildDirectoryTree ==
  /\ last.op = "new"
  /\ \/ \E disk \in Disks :
          last' = [op |-> "buildDirectoryTree", key |-> disk,
                   ret |-> [name |-> uploadsRoot[1], path |-> uploadsRoot,
                            type |-> "folder", children |-> walk(disk, uploadsRoot)],
                   ok |-> TRUE, list |-> <<>>, threw |-> FALSE,
                   capBefore |-> capacity, present |-> FALSE, at |-> <<0, 0>>]
     \/ last' = [op |-> "buildDirectoryTree", key |-> UndefinedKey, ret |-> Undefined,
                  ok |-> FALSE, list |-> <<>>, threw |-> TRUE,
                  capBefore |-> capacity, present |-> FALSE, at |-> <<0, 0>>]
  /\ UNCHANGED <<table, config, history, service>>

\* the cache is empty, or holds one entry
InitTree ==
  /\ loadFactor = DEFAULT_LOAD_FACTOR
  /\ hashFunction = Undefined
  /\ equalsFunction = "identity"
  /\ \E t \in { [buckets |-> [b \in 1..DEFAULT_CAPACITY |-> <<>>], size |-> 0,
                  capacity |-> DEFAULT_CAPACITY],
                 setResult([buckets |-> [b \in 1..DEFAULT_CAPACITY |-> <<>>], size |-> 0,
                            capacity |-> DEFAULT_CAPACITY],
                           PathX, Projection(Row(1, PathX, "n1", FALSE))) } :
       /\ buckets = t.buckets
       /\ size = t.size
       /\ capacity = t.capacity
  /\ NoHistory(FALSE)
  /\ NotStarted(<<>>)
  /\ last = Call("new", UndefinedKey, Undefined, FALSE, <<>>, FALSE)

NextTree == buildDirectoryTree

SpecTree == InitTree /\ [][NextTree]_vars

\* -- the controller's upload over an empty store: one upload at a time,
\* next to the getByPath calls of another request --
InitUpload ==
  /\ constructor(<<>>, <<>>)
  /\ NoHistory(FALSE)
  /\ NotStarted(<<>>)
  /\ last = Call("new", UndefinedKey, Undefined, FALSE, <<>>, FALSE)

NextUpload ==
  \/ onModuleInit_call
  \/ onModuleInit_resume
  \/ \E files \in UploadFiles : upload(1, files)
  \/ upload_resume(1)
  \/ \E k \in StoredPaths : getByPath(2, k)
  \/ getByPath_resume(2)
  \/ \E p \in Callers : findAllActive(p)
  \/ \E p \in Callers : findByPath(p)
  \/ \E p \in Callers : create(p)

SpecUpload == InitUpload /\ [][NextUpload]_vars

\* -- the service over a store of thirteen records: the cache of default
\* capacity 16 and load factor 3/4 doubles at its thirteenth entry --
FillerRows == [i \in 1..12 |-> Row(i, FillerPath(i), "n1", FALSE)]

\* the thirteenth record is inactive (startup loads twelve) or active
\* (startup loads thirteen and doubles the table)
FullStores ==
  { FillerRows \o << Row(13, PathY, "n1", TRUE) >>,
    FillerRows \o << Row(13, PathX, "n1", FALSE) >> }

InitFull ==
  /\ constructor(<<>>, <<>>)
  /\ NoHistory(FALSE)
  /\ \E rows \in FullStores : NotStarted(rows)
  /\ last = Call("new", UndefinedKey, Undefined, FALSE, <<>>, FALSE)

NextFull ==
  \/ onModuleInit_call
  \/ onModuleInit_resume
  \/ \E p \in Requests : bootstrapHashmap(p)
  \/ \E p \in Requests : bootstrapHashmap_resumed(p)
  \/ \E p \in Requests, k \in StoredPaths \cup {FillerPath(8)} : getByPath(p, k)
  \/ \E p \in Requests : getByPath_resume(p)
  \/ \E p \in Requests, k \in StoredPaths, n \in UploadNames : registerFile(p, k, n)
  \/ \E p \in Requests : registerFile_resume(p)
  \/ \E p \in Callers : findAllActive(p)
  \/ \E p \in Callers : findByPath(p)
  \/ \E p \in Callers : create(p)

SpecFull == InitFull /\ [][NextFull]_vars

\* ---- properties ----
RECURSIVE SumOfLengths(_, _)
SumOfLengths(bs, b) ==
  IF b > Len(bs) THEN 0 ELSE Len(bs[b]) + SumOfLengths(bs, b + 1)

\* a step in which a call that changes the table returned
Returned(op) == last'.op = op /\ ~last'.threw /\ nOps' = nOps + 1

\* C1: whenever the most recent set on k was set(k, v) and no delete(k) (or
\* clear) came after it, get(k) returns v: in every state for every key, and
\* for the get call that has just returned.
C1_LastWriteWins ==
  /\ \A k \in Keys : model[k] # Undefined => getResult(This, k) = model[k]
  /\ (last.op = "get" /\ last.present) => last.ret = model[last.key]

\* a get has returned the second value written to a key, after a key was deleted
C1_Witness ==
  /\ last.op = "get" /\ last.ret = "v2"
  /\ deleteTrue > 0
  /\ size >= 1

\* C2: for every key that is not present (never set, or deleted or cleared
\* since its last set), get returns undefined and has returns false.
C2_AbsentKeys ==
  /\ \A k \in AllKeys :
       model[k] = Undefined => getResult(This, k) = Undefined /\ ~hasResult(This, k)
  /\ (last.op = "get" /\ ~last.present) => last.ret = Undefined
  /\ (last.op = "has" /\ ~last.present) => ~last.ok

\* has returned false for a key that had been set and deleted, other keys remaining
C2_Witness ==
  /\ last.op = "has" /\ ~last.ok
  /\ last.key \in everSet
  /\ deleteTrue > 0 /\ ~clearCalled
  /\ size >= 1

\* C3 as stated: after any sequence of set and delete operations, size is
\* the number of distinct keys ever set minus the number of delete calls
\* that returned true.
C3_SizeIsEverSetMinusDeletes ==
  ~clearCalled => size = Cardinality(everSet) - deleteTrue

\* C3 amended: after any sequence of set and delete operations, size is the
\* number of set calls on a key that was not present at the time minus the
\* number of delete calls that returned true.
C3_SizeIsNewKeySetsMinusDeletes ==
  ~clearCalled => size = newKeySets - deleteTrue

\* a key has been set again after its delete returned true
C3_Witness ==
  /\ ~clearCalled
  /\ deleteTrue > 0
  /\ newKeySets > Cardinality(everSet)
  /\ size >= 1

\* C4: in every reachable state size is the sum of the chain lengths over
\* all buckets, capacity is at least 1 and is the number of buckets.
C4_SizeIsSumOfChains ==
  /\ size = SumOfLengths(buckets, 1)
  /\ capacity >= 1
  /\ capacity = Len(buckets)

\* after a resize to a capacity no table starts with: several entries, one
\* chain longer than one
C4_Witness ==
  /\ size >= 2
  /\ capacity = 8
  /\ \E b \in 1..Len(buckets) : Len(buckets[b]) >= 2

\* the keys of every chain, bucket by bucket
KeyLayout(bs) == [b \in 1..Len(bs) |-> [i \in 1..Len(bs[b]) |-> bs[b][i].key]]

\* the sequence s without its elements equal to x
Without(s, x) == SelectSeq(s, LAMBDA y : y # x)

\* C5: when a set triggers growth, every key present before that set is
\* still present afterwards with the same value, the new key is present with
\* its value, and size is the old size plus one.
C5_ResizePreservesMappings ==
  [][ (Returned("set") /\ capacity' # capacity) =>
        /\ \A k \in Keys \ {last'.key} :
             /\ hasResult(This', k) = hasResult(This, k)
             /\ getResult(This', k) = getResult(This, k)
             /\ getResult(This', k) = model[k]
        /\ hasResult(This', last'.key)
        /\ getResult(This', last'.key) = last'.ret
        /\ size' = size + 1 ]_vars

\* a set has just doubled the capacity of a table holding at least two other keys
C5_Witness ==
  /\ last.op = "set" /\ ~last.threw
  /\ capacity = 2 * last.capBefore
  /\ size >= 3

\* C6: a set that inserts a new key grows the table exactly when (size after
\* the insert) / capacity > loadFactor; the growth is one doubling, finished
\* within the call (also when the ratio still exceeds the load factor after
\* it), and otherwise the capacity is unchanged.
C6_GrowthRule ==
  [][ (Returned("set") /\ ~last'.present) =>
        /\ size' = size + 1
        /\ Len(buckets') = capacity'
        /\ IF (size + 1) * loadFactor[2] > loadFactor[1] * capacity
             THEN capacity' = 2 * capacity
             ELSE capacity' = capacity ]_vars

\* a set has doubled the capacity once and the ratio still exceeds the load factor
C6_Witness ==
  /\ last.op = "set" /\ ~last.threw /\ ~last.present
  /\ capacity = 2 * last.capBefore
  /\ size * loadFactor[2] > loadFactor[1] * capacity

\* C7: set on a key that is already present overwrites the value in place:
\* size, capacity, the bucket layout and every other key's value are
\* unchanged, and no resize check runs even if size / capacity exceeds the
\* load factor.
C7_OverwriteInPlace ==
  [][ (Returned("set") /\ last'.present) =>
        /\ size' = size
        /\ capacity' = capacity
        /\ KeyLayout(buckets') = KeyLayout(buckets)
        /\ \A k \in Keys \ {last'.key} : getResult(This', k) = getResult(This, k)
        /\ getResult(This', last'.key) = last'.ret ]_vars

\* a present key has been overwritten while size / capacity exceeds the load factor
C7_Witness ==
  /\ last.op = "set" /\ ~last.threw /\ last.present
  /\ last.ret = "v2"
  /\ size >= 2
  /\ size * loadFactor[2] > loadFactor[1] * capacity

\* C8: delete(k) returns true exactly when k is present; when it returns
\* true it removes only k (size decreases by 1, every other key, also in the
\* same chain, keeps its place and value); when it returns false the table
\* is unchanged.
C8_DeleteRemovesOnlyKey ==
  [][ Returned("delete") =>
        /\ last'.ok = last'.present
        /\ last'.ok = hasResult(This, last'.key)
        /\ last'.ok =>
             /\ size' = size - 1
             /\ capacity' = capacity
             /\ ~hasResult(This', last'.key)
             /\ \A k \in Keys \ {last'.key} : getResult(This', k) = getResult(This, k)
             /\ \A b \in 1..capacity :
                  /\ KeyLayout(buckets')[b] = Without(KeyLayout(buckets)[b], last'.key)
                  /\ Len(buckets'[b]) >= Len(buckets[b]) - 1
        /\ ~last'.ok => UNCHANGED table ]_vars

\* delete has returned true for the middle node of a chain of three
C8_Witness ==
  /\ last.op = "delete" /\ last.ok
  /\ last.at = <<2, 3>>
  /\ size = 2

\* C9: after clear(), size is 0 and has(k) is false (get(k) undefined) for
\* every key, whatever preceded it; the table is usable again afterwards
\* (later sets are found, with the right size).
C9_ClearEmpties ==
  /\ last.op = "clear" =>
       /\ size = 0
       /\ \A k \in AllKeys : ~hasResult(This, k) /\ getResult(This, k) = Undefined
  /\ clearCalled =>
       /\ \A k \in AllKeys : getResult(This, k) = model[k]
       /\ size = Cardinality({k \in AllKeys : model[k] # Undefined})

\* clear has just returned on a table that held two keys
C9_Witness ==
  /\ last.op = "clear"
  /\ nOps = 3 /\ newKeySets = 2 /\ deleteTrue = 0

\* C10: capacity never decreases, and only a set that inserts a new key
\* changes it: delete, clear, get, has, keys, values, entries and forEach leave
\* it as it is, clear also after a resize.
C10_CapacityOnlyGrowsInSet ==
  [][ /\ capacity' >= capacity
      /\ capacity' # capacity => (Returned("set") /\ ~last'.present)
      /\ last'.op \in {"delete", "clear", "get", "has", "keys", "values", "entries", "forEach"}
           => capacity' = capacity ]_vars

\* clear has returned on a table grown to a capacity no table starts with
C10_Witness ==
  /\ last.op = "clear"
  /\ capacity = 8
  /\ size = 0

\* C11: set(undefined, v) fails with 'Key cannot be undefined' and leaves
\* the table unchanged (size, capacity, buckets, every key's value); it is
\* the only failure of set.
C11_UndefinedKeyRejected ==
  /\ [](last.op = "set" =>
          /\ last.threw <=> last.key = UndefinedKey
          /\ last.threw => last.ret = KeyUndefinedError)
  /\ [][ (last'.op = "set" /\ last'.threw /\ last' # last) =>
           /\ UNCHANGED <<buckets, size, capacity>>
           /\ \A k \in AllKeys : getResult(This', k) = getResult(This, k) ]_vars

\* set(undefined, v) has thrown on a table that holds two keys
C11_Witness ==
  /\ last.op = "set" /\ last.threw
  /\ last.key = UndefinedKey
  /\ last.ret = KeyUndefinedError
  /\ size = 2

\* C12 as stated: get, has and delete return a result without failing for
\* every key, including undefined, null and keys whose structural
\* serialization fails, and answer undefined / false for a key that is not
\* present.
C12_LookupsAreTotal ==
  last.op \in {"get", "has", "delete"} =>
    /\ ~last.threw
    /\ ~last.present =>
         /\ last.op = "get" => last.ret = Undefined
         /\ last.op \in {"has", "delete"} => ~last.ok

\* the keys that are present, per the history
Live == {k \in KeyUniverse : model[k] # Undefined}

Range(s) == {s[i] : i \in 1..Len(s)}

\* C13: keys(), values(), entries() and forEach visit every live entry
\* exactly once and nothing else: each result has exactly size elements,
\* entries() is the current key->value mapping, and the traversal does not
\* change the table.
C13_TraversalVisitsLiveEntriesOnce ==
  /\ [](/\ Len(entriesResult(This)) = size
        /\ Cardinality(Live) = size
        /\ Range(entriesResult(This)) = {<<k, model[k]>> : k \in Live}
        /\ Len(keysResult(This)) = size
        /\ Range(keysResult(This)) = Live
        /\ Len(valuesResult(This)) = size
        /\ Range(valuesResult(This)) = {model[k] : k \in Live}
        /\ last.op = "entries" => last.list = entriesResult(This)
        /\ last.op = "keys" => last.list = keysResult(This)
        /\ last.op = "values" => last.list = valuesResult(This)
        /\ last.op = "forEach" =>
             /\ Len(last.list) = size
             /\ Range(last.list) = {<<model[k], k>> : k \in Live})
  /\ [][ last'.op \in {"keys", "values", "entries", "forEach"} =>
           UNCHANGED <<buckets, size, capacity>> ]_vars

\* entries() has returned two entries after three sets on two keys (one an
\* overwrite with the second value)
C13_Witness ==
  /\ last.op = "entries"
  /\ Len(last.list) = 2
  /\ nOps = 3 /\ newKeySets = 2 /\ deleteTrue = 0 /\ ~clearCalled
  /\ \E i \in 1..2 : last.list[i][2] = "v2"

\* ---- properties of the service ----
\* caller p's call op has come back from its await and finishes in this step
Resumes(p, op) ==
  /\ calls[p].op = op
  /\ calls[p].pc = "resume"
  /\ calls'[p].pc = "idle"

\* the store resolved the awaited call of p with a record
GotRecord(p) == calls[p].ans.kind = "rows" /\ calls[p].ans.rows # <<>>

\* C14: a getByPath on a key that is not cached reads the store once and, when
\* the store has a record, caches the record's projection under the key and
\* returns it; a getByPath on a cached key returns the cached value and reads
\* nothing from the store, so a second getByPath returns the identical value.
C14_CacheAside ==
  [][ /\ \A p \in Requests : (Resumes(p, "getByPath") /\ GotRecord(p)) =>
           /\ result'.kind = "returned"
           /\ result'.reads = 1
           /\ result'.value = Projection(calls[p].ans.rows[1])
           /\ hasResult(This', calls[p].path)
           /\ getResult(This', calls[p].path) = result'.value
      /\ \A p \in Requests, k \in Paths : getByPath(p, k) =>
           IF hasResult(This, k)
             THEN /\ result'.kind = "returned"
                  /\ result'.value = getResult(This, k)
                  /\ result'.reads = 0
                  /\ UNCHANGED <<nFindByPath, calls, buckets, size, capacity>>
             ELSE /\ nFindByPath' = nFindByPath + 1
                  /\ calls'[p].pc = "findByPath"
                  /\ UNCHANGED <<buckets, size, capacity>> ]_vars

\* the only record is inactive, so the bootstrap did not load it: the first
\* getByPath missed and read the store, the second one was served by the cache
C14_Witness ==
  /\ store = << Row(1, PathX, "n1", TRUE) >>
  /\ nCalls = 2
  /\ nFindByPath = 1
  /\ result.op = "getByPath" /\ result.hit /\ result.reads = 0
  /\ result.value = Projection(store[1])
  /\ hasResult(This, PathX)

RegisterOps == {"registerFile", "registerFileToFolder"}

\* C15: when registerFile or registerFileToFolder returns a value for path p,
\* the cache holds that value under p; as long as no other call has finished
\* since, a getByPath(p) returns that value and reads nothing from the store.
C15_WriteThrough ==
  /\ []((result.op \in RegisterOps /\ result.kind = "returned") =>
          /\ hasResult(This, result.path)
          /\ getResult(This, result.path) = result.value
          /\ result.value.path = result.path)
  /\ [][ /\ \A p \in Requests :
              ((Resumes(p, "registerFile") \/ Resumes(p, "registerFileToFolder"))
                 /\ GotRecord(p)) =>
                /\ result'.kind = "returned"
                /\ result'.op = calls[p].op
                /\ result'.value = Projection(calls[p].ans.rows[1])
         /\ \A q \in Requests :
              (result.op \in RegisterOps /\ result.kind = "returned"
                 /\ getByPath(q, result.path)) =>
                /\ result'.kind = "returned"
                /\ result'.value = result.value
                /\ result'.reads = 0
                /\ UNCHANGED <<nFindByPath, calls>> ]_vars

\* the table was empty at startup; a getByPath was served from the cache with
\* the value a register call had stored: no findByPath was ever issued
C15_Witness ==
  /\ result.op = "getByPath" /\ result.hit
  /\ nFindByPath = 0 /\ nFindAllActive = 1
  /\ Len(store) = 1 /\ store[1].path = PathY /\ result.path = PathY
  /\ result.value = Projection(store[1])

\* C16: when the store's create rejects during registerFile or
\* registerFileToFolder (or the file cannot be moved, in registerFileToFolder),
\* the call throws that failure and the cache is left as it was; the cache is
\* not written before create has resolved either.
C16_FailedWriteLeavesCache ==
  [][ /\ \A p \in Requests :
           ((Resumes(p, "registerFile") \/ Resumes(p, "registerFileToFolder"))
              /\ calls[p].ans.kind = "error") =>
             /\ result'.kind = StoreError
             /\ result'.op = calls[p].op
             /\ UNCHANGED <<buckets, size, capacity, store>>
      /\ \A p \in Requests, k \in StoredPaths, n \in UploadNames :
           (registerFile(p, k, n) \/ registerFileToFolder(p, k, n)) =>
             UNCHANGED <<buckets, size, capacity, store>> ]_vars

\* a registerFile threw the store's failure while the cache held another path
\* and not the one being registered
C16_Witness ==
  /\ result.op = "registerFile" /\ result.kind = StoreError
  /\ size = 1
  /\ ~hasResult(This, result.path)

\* C17: a getByPath on a key that is not cached and of which the store has no
\* record throws NotFoundException('Attachment not found'); when the read
\* rejects instead the call throws that failure; in both cases the cache is
\* left unchanged (no negative entry is written).
C17_MissWithoutRecord ==
  /\ [](result.kind = NotFoundException => result.op = "getByPath")
  /\ [][ \A p \in Requests :
           /\ (Resumes(p, "getByPath") /\ ~GotRecord(p)) =>
                /\ result'.kind = IF calls[p].ans.kind = "error"
                                    THEN StoreError ELSE NotFoundException
                /\ result'.path = calls[p].path
                /\ UNCHANGED <<buckets, size, capacity>>
           /\ (calls[p].pc = "findByPath" /\ calls'[p].pc = "resume"
                 /\ \A i \in 1..Len(store) : store[i].path # calls[p].path) =>
                ~GotRecord(p)' ]_vars

\* getByPath("missing") threw NotFoundException; the cache holds the records
\* loaded at startup and nothing under "missing"
C17_Witness ==
  /\ result.op = "getByPath" /\ result.kind = NotFoundException
  /\ result.path = PathMissing
  /\ size = 2
  /\ ~hasResult(This, PathMissing)

\* the paths that have an active record, and the active records at a path
ActivePaths == { store[i].path : i \in ActiveRows }
ActiveAt(k) == { i \in ActiveRows : store[i].path = k }

\* the record findAllActive returned last for path k
LastWith(rows, k) ==
  rows[CHOOSE i \in 1..Len(rows) :
         /\ rows[i].path = k
         /\ \A j \in 1..Len(rows) : rows[j].path = k => j <= i]

\* the startup bootstrap has completed and nothing has happened since
JustStarted == boot = "done" /\ nCalls = 0

\* C18 as stated: once the startup bootstrap has completed, for every active
\* record the cache holds that record's projection under the record's path.
C18_EveryActiveRecordCached ==
  JustStarted =>
    \A i \in ActiveRows :
      /\ hasResult(This, store[i].path)
      /\ getResult(This, store[i].path) = Projection(store[i])

\* C18 (amended): once bootstrapHashmap has completed, the path of every
\* active record is cached with the projection of the active record that
\* findAllActive returned last for that path (the record's own projection
\* when no other active record shares its path), and a getByPath on such a
\* path returns the cached value without calling findByPath.
C18_EveryActivePathCached ==
  /\ [](JustStarted =>
          \A k \in ActivePaths :
            /\ hasResult(This, k)
            /\ \E i \in ActiveAt(k) : getResult(This, k) = Projection(store[i])
            /\ Cardinality(ActiveAt(k)) = 1 =>
                 \A i \in ActiveAt(k) : getResult(This, k) = Projection(store[i]))
  /\ [][ /\ \A p \in Callers :
              ((Resumes(p, "onModuleInit") \/ Resumes(p, "bootstrapHashmap"))
                 /\ calls[p].ans.kind = "rows") =>
                /\ result'.kind = "returned"
                /\ \A r \in Range(calls[p].ans.rows) :
                     /\ hasResult(This', r.path)
                     /\ getResult(This', r.path)
                          = Projection(LastWith(calls[p].ans.rows, r.path))
         /\ \A q \in Requests, k \in ActivePaths :
              (JustStarted /\ getByPath(q, k)) =>
                /\ result'.kind = "returned"
                /\ result'.value = getResult(This, k)
                /\ result'.reads = 0
                /\ UNCHANGED <<nFindByPath, calls>> ]_vars

\* two active records share "uploads/x.txt"; after the startup bootstrap a
\* getByPath on it was served from the cache with the projection of one of them
C18_Witness ==
  /\ boot = "done"
  /\ nCalls = 1 /\ nFindByPath = 0
  /\ Len(store) = 2 /\ store[1].path = PathX /\ store[2].path = PathX
  /\ result.op = "getByPath" /\ result.hit /\ result.path = PathX
  /\ result.value \in {Projection(store[1]), Projection(store[2])}
  /\ size = 1

\* C19: when the bootstrap of onModuleInit fails, onModuleInit throws that
\* failure (startup fails), findAllActive has been called once and is not
\* called again, no request is served, and the cache holds no record.
C19_BootstrapFailureIsFatal ==
  /\ [](boot = "failed" =>
          /\ result.op = "onModuleInit" /\ result.kind = StoreError
          /\ nFindAllActive = 1
          /\ nCalls = 0
          /\ size = 0
          /\ \A k \in Paths : ~hasResult(This, k)
          /\ \A p \in Callers : calls[p] = Idle)
  /\ [][ /\ (Resumes(0, "onModuleInit") /\ calls[0].ans.kind = "error") =>
              /\ boot' = "failed"
              /\ result'.kind = StoreError
              /\ UNCHANGED <<buckets, size, capacity>>
         /\ boot = "failed" => UNCHANGED vars ]_vars

\* the table held two active records and the startup bootstrap failed
C19_Witness ==
  /\ boot = "failed"
  /\ Len(store) = 2 /\ ActiveRows = {1, 2}
  /\ size = 0
  /\ result.kind = StoreError

\* a bootstrapHashmap call finishes with the active records as they are now
FreshBootstrap(p) ==
  /\ Resumes(p, "bootstrapHashmap")
  /\ calls[p].ans.kind = "rows"
  /\ Range(calls[p].ans.rows) = { store[i] : i \in ActiveRows }

\* C20 as stated: after a fresh bootstrapHashmap() every cached key holds the
\* projection of an active store record at that path.
C20_FreshBootstrapAgrees ==
  [][ \A p \in Requests : FreshBootstrap(p) =>
        \A k \in Paths : hasResult(This', k) =>
          \E i \in ActiveAt(k) : getResult(This', k) = Projection(store[i]) ]_vars

\* C20 (amended): after a fresh bootstrapHashmap() every path that has an
\* active record is cached with the projection of an active record at that
\* path, as the store holds it now; a cached key without an active record
\* (its records were marked inactive) stays cached with the value it had.
C20_FreshBootstrapAgreesOnActivePaths ==
  [][ \A p \in Requests : FreshBootstrap(p) =>
        \A k \in Paths :
          IF ActiveAt(k) # {}
            THEN /\ hasResult(This', k)
                 /\ \E i \in ActiveAt(k) : getResult(This', k) = Projection(store[i])
            ELSE /\ hasResult(This', k) <=> hasResult(This, k)
                 /\ hasResult(This, k) => getResult(This', k) = getResult(This, k) ]_vars

\* the record at "uploads/x.txt" was marked inactive and the one at
\* "uploads/y.txt" rewritten; after a fresh bootstrapHashmap() the cache has the
\* new value for "uploads/y.txt" and still the old entry for "uploads/x.txt"
C20_Witness ==
  /\ result.op = "bootstrapHashmap" /\ result.kind = "returned"
  /\ store = << Row(1, PathX, "n1", TRUE), Row(2, PathY, "n2", FALSE) >>
  /\ nCalls = 3
  /\ hasResult(This, PathY) /\ getResult(This, PathY) = Projection(store[2])
  /\ hasResult(This, PathX)
  /\ getResult(This, PathX) = Projection(Row(1, PathX, "n1", FALSE))

\* the keys the cache holds
CachedKeys == Range(keysResult(This))

\* C21: no step of the service or of the store removes a cache entry: the set
\* of cached keys only grows and size never decreases, also when a record is
\* marked inactive.
C21_CacheNeverShrinks ==
  [][ \/ UNCHANGED table
      \/ /\ size' >= size
         /\ \A k \in CachedKeys : hasResult(This', k) ]_vars

\* the only record was loaded at startup and then marked inactive: its path is
\* still cached
C21_Witness ==
  /\ Len(store) = 1 /\ store[1].isDeleted
  /\ nFindByPath = 0 /\ nCalls >= 1
  /\ hasResult(This, store[1].path)
  /\ size = 1

\* C22: every cached value is the projection of a version of a row the store
\* holds (so the write was persisted), cached under that row's path; and a
\* cache entry is written only by a call that resumes from a store call, with
\* the projection of a record that store call returned.
C22_CacheHoldsStoreRecords ==
  /\ [](\A k \in CachedKeys :
          LET v == getResult(This, k)
          IN /\ v.path = k
             /\ v.id \in 1..Len(store)
             /\ \E n \in Names : v = Projection([store[v.id] EXCEPT !.name = n]))
  /\ [][ \A k \in Paths :
           (table' # table /\ hasResult(This', k)
              /\ (~hasResult(This, k) \/ getResult(This', k) # getResult(This, k))) =>
             \E p \in Callers :
               /\ calls[p].pc = "resume" /\ calls'[p].pc = "idle"
               /\ \E r \in Range(calls[p].ans.rows) :
                    /\ r.path = k
                    /\ r.id \in 1..Len(store)
                    /\ getResult(This', k) = Projection(r) ]_vars

\* the record at "uploads/x.txt" was rewritten in the store after it had been
\* cached: the cache still holds the projection of the version the store had
\* returned
C22_Witness ==
  /\ Len(store) = 1 /\ store[1].path = PathX /\ store[1].name = "n2"
  /\ hasResult(This, PathX)
  /\ getResult(This, PathX) = Projection([store[1] EXCEPT !.name = "n1"])

\* the calls have the results the history of calls determines, whatever the
\* bucket of each key: get the value of the latest live set, has whether
\* there is one, delete whether there was one, size the number of live keys
ResultsFollowHistory ==
  /\ size = Cardinality({k \in Keys : model[k] # Undefined})
  /\ \A k \in Keys :
       /\ getResult(This, k) = model[k]
       /\ hasResult(This, k) = (model[k] # Undefined)
  /\ last.op = "get" => last.ret = model[last.key]
  /\ last.op = "has" => last.ok = (model[last.key] # Undefined)
  /\ last.op = "delete" => last.ok = last.present

\* C23: the results do not depend on the hash distribution. Under the
\* default hash, under a hash function that sends every key to one bucket
\* and under one that returns negative numbers, from initial capacity 2,
\* every sequence of set, get, has and delete gives the results and the size
\* that the sequence alone determines (so the same under each hash), and
\* every key of a chain is retrievable with its own value.
C23_ResultsIndependentOfHash ==
  ResultsFollowHistory

\* every key hashes to one bucket: four keys are in one chain and a get has
\* returned the value of the node at its end
C23_Witness ==
  /\ hashFunction = "sameBucket"
  /\ size = 4
  /\ \E b \in 1..capacity :
       /\ Len(buckets[b]) = 4
       /\ last.op = "get" /\ last.key = buckets[b][4].key
       /\ last.ret = buckets[b][4].value
\* C24: with a custom equalsFunction, keys the function judges equal
\* resolve to the same entry at every capacity the table reaches: has and
\* get give the same answer for both, and no two entries hold equal keys.
C24_EqualKeysShareEntry ==
  /\ \A k1, k2 \in EqualsKeys :
       equals(k1, k2) =>
         /\ hasResult(This, k1) = hasResult(This, k2)
         /\ hasResult(This, k1) => getResult(This, k1) = getResult(This, k2)
  /\ \A i, j \in 1..size :
       i # j => ~equals(keysResult(This)[i], keysResult(This)[j])
\* the keys that getBucketIndex hashes without throwing
IndexKeys == {k \in AllKeys \cup {NullKey, CircularKey} : ~getBucketIndexThrows(k)}

Pos(ks, k) == CHOOSE i \in 1..Len(ks) : ks[i] = k
Reverse(ks) == [i \in 1..Len(ks) |-> ks[Len(ks) + 1 - i]]

\* every chain is most recently inserted first
MostRecentFirst ==
  \A b \in 1..capacity : \A i, j \in 1..Len(buckets[b]) :
    i < j => Pos(order.seq, buckets[b][i].key) > Pos(order.seq, buckets[b][j].key)

\* what a traversal lists, per node: <<key>> for keys, <<value>> for values,
\* <<key, value>> for entries, <<value, key>> for forEach
Listed(op, node) ==
  CASE op = "keys" -> node.key
    [] op = "values" -> node.value
    [] op = "entries" -> <<node.key, node.value>>
    [] OTHER -> <<node.value, node.key>>

\* the list of the last traversal is the chains in bucket-index order, each
\* from its head
ListedInBucketThenChainOrder ==
  last.op \in {"keys", "values", "entries", "forEach"} =>
    /\ Len(last.list) = size
    /\ \A b \in 1..capacity : \A i \in 1..Len(buckets[b]) :
         last.list[SumOfLengths(SubSeq(buckets, 1, b - 1), 1) + i] = Listed(last.op, buckets[b][i])

C27_FailedSetLeavesTable ==
  [][(last'.op = "set" /\ last'.threw) => UNCHANGED table]_vars
\* C28: in every reachable state every entry sits in the bucket whose index
\* is hash(key) mod the current capacity, also right after a resize, so a
\* lookup that scans that one bucket finds every key of the table.
C28_EntriesInTheirBucket ==
  /\ \A b \in 1..capacity : \A i \in 1..Len(buckets[b]) :
       getBucketIndex(This, buckets[b][i].key) = b - 1
  /\ \A k \in Range(keysResult(This)) : hasResult(This, k)

\* a set has just doubled the capacity to 8 and the entries are spread over
\* several buckets
C28_Witness ==
  /\ last.op = "set" /\ ~last.threw
  /\ capacity = 8 /\ last.capBefore = 4
  /\ size = 4
  /\ Cardinality({b \in 1..capacity : buckets[b] # <<>>}) >= 2

\* the ratio size / capacity is at most the load factor
WithinLoadFactor == size * loadFactor[2] <= loadFactor[1] * capacity

\* C29 as stated: after every set call returns, size / capacity <=
\* loadFactor, for every loadFactor in (0, 1] and every initial capacity.
C29_RatioWithinLoadFactor ==
  (last.op = "set" /\ ~last.threw) => WithinLoadFactor

\* C29 amended: after every set call returns, size / capacity <= loadFactor
\* when loadFactor >= 1/2; under a smaller load factor the ratio exceeds it
\* only after a set that doubled the capacity (a set doubles it once) or
\* that overwrote the value of a present key (no resize check).
C29_RatioWithinLoadFactorFromHalf ==
  (last.op = "set" /\ ~last.threw) =>
    \/ WithinLoadFactor
    \/ /\ 2 * loadFactor[1] < loadFactor[2]
       /\ last.present \/ capacity = 2 * last.capBefore

\* under load factor 1/2 a set has doubled the capacity and the ratio is
\* exactly the load factor, after a delete
C29_Witness ==
  /\ loadFactor = <<1, 2>>
  /\ last.op = "set" /\ ~last.threw
  /\ capacity = 2 * last.capBefore
  /\ capacity >= 4
  /\ 2 * size = capacity
  /\ deleteTrue > 0

\* C30: in every reachable state no two entries of the table hold keys that
\* the equality function (the default identity) judges equal, also after a
\* resize.
C30_NoTwoEntriesWithEqualKeys ==
  LET ks == keysResult(This)
  IN \A i, j \in 1..Len(ks) : equals(ks[i], ks[j]) => i = j

\* a set has overwritten the value of a key after the table was resized
\* (capacity 8 is not an initial capacity)
C30_Witness ==
  /\ last.op = "set" /\ ~last.threw /\ last.present
  /\ capacity = 8
  /\ size >= 2
  /\ getResult(This, last.key) = last.ret
\* the reference rolling hash on unsigned 32-bit values, as halves:
\* h := (h * 33 + c) mod 2^32
RollingStep(h, c) ==
  LET lo == h.lo * 33 + c
      hi == h.hi * 33 + (lo \div 65536)
  IN [hi |-> hi % 65536, lo |-> lo % 65536]

RECURSIVE RollingHashFrom(_, _, _)
RollingHashFrom(str, i, h) ==
  IF i > Len(str) THEN h
  ELSE RollingHashFrom(str, i + 1, RollingStep(h, str[i]))

RollingHash(str) == RollingHashFrom(str, 1, [hi |-> 0, lo |-> 5381])

\* C31: the default hash of a string is the reference rolling hash (start
\* 5381, h := (h * 33 + charCode) mod 2^32 per character) as an unsigned
\* 32-bit value: the empty string hashes to 5381 and the result is in
\* [0, 2^32).
C31_StringHashIsRollingHash ==
  last.op = "defaultHash" =>
    /\ last.ret = RollingHash(last.key.s)
    /\ last.ret.hi \in 0..65535 /\ last.ret.lo \in 0..65535
    /\ last.key.s = <<>> => last.ret = [hi |-> 0, lo |-> 5381]

\* the hash of a string of five code units whose running value was negative
\* (as a signed 32-bit number) after the fourth and whose result is 2^31 or
\* more
C31_Witness ==
  /\ last.op = "defaultHash"
  /\ Len(last.key.s) = 5
  /\ last.ret.hi >= 32768
  /\ hashStringFrom(SubSeq(last.key.s, 1, 4), 1, HASH_PRIME) < 0
\* C32: the bootstrap completes before the table is exposed: no getByPath,
\* registerFile, registerFileToFolder or listByProduct starts or returns
\* until onModuleInit has returned, and onModuleInit returns in the step in
\* which bootstrapHashmap has set every record that findAllActive returned.
C32_BootstrapBeforeRequests ==
  /\ [](boot # "done" => result.op \in {"none", "onModuleInit"}
                          /\ \A p \in Requests : calls[p] = Idle)
  /\ [](boot = "done" => calls[0] = Idle)
  /\ [][ (boot' = "done" /\ boot # "done") =>
           /\ calls[0].op = "onModuleInit" /\ calls[0].ans.kind = "rows"
           /\ \A r \in Range(calls[0].ans.rows) : hasResult(This', r.path) ]_vars
  /\ [][ \A p \in Requests :
           (calls'[p] # calls[p] \/ (result' # result /\ result'.op # "onModuleInit")) =>
             boot = "done" ]_vars

\* the first request after a bootstrap of two records was a getByPath served
\* from the cache
C32_Witness ==
  /\ boot = "done"
  /\ result.op = "getByPath" /\ result.hit /\ result.path = PathY
  /\ nCalls = 1 /\ nFindAllActive = 1 /\ nFindByPath = 0
  /\ size = 2
\* the table t is whole: size counts the nodes, there is one bucket per unit
\* of capacity, every node sits in the bucket of its key, no key is held
\* twice and every key listed is found
Whole(t) ==
  /\ t.size = SumOfLengths(t.buckets, 1)
  /\ t.capacity = Len(t.buckets)
  /\ \A b \in 1..t.capacity : \A i \in 1..Len(t.buckets[b]) :
       getBucketIndex(t, t.buckets[b][i].key) = b - 1
  /\ LET ks == keysResult(t)
     IN \A i, j \in 1..Len(ks) : ks[i] = ks[j] => i = j
  /\ \A k \in Range(keysResult(t)) : hasResult(t, k)

\* C33: bootstrap, registerFile and getByPath are suspended only on a call of
\* the store (never inside a set or a get); whenever a call is suspended the
\* table is whole; and a step that resizes the table leaves every entry it
\* held in place with its value, plus the entries the step set, so that no
\* request sees a table that is rehashed in part.
C33_TableAtomicAcrossSuspensions ==
  /\ [](\A p \in Callers :
          calls[p].pc \in {"idle", "findAllActive", "findByPath", "create", "resume"})
  /\ []((\E p \in Callers : calls[p].pc # "idle") => Whole(This))
  /\ [][ capacity' # capacity =>
           /\ capacity' = 2 * capacity
           /\ size' = Cardinality(Range(keysResult(This)) \cup Range(keysResult(This')))
           /\ Whole(This')
           /\ \A k \in Range(keysResult(This)) :
                hasResult(This', k) /\ getResult(This', k) = getResult(This, k) ]_vars

\* a registerFile has doubled the table to 32 buckets while a getByPath was
\* waiting for the store
C33_Witness ==
  /\ capacity = 32 /\ size = 13
  /\ result.op = "registerFile" /\ result.kind = "returned"
  /\ \E p \in Requests : calls[p].op = "getByPath" /\ calls[p].pc = "findByPath"
  /\ nFindAllActive = 1
\* caller p resumes a getByPath that missed, right after another getByPath
\* that missed on the same key has returned
SecondMiss(p) ==
  /\ calls[p].op = "getByPath" /\ calls[p].pc = "resume"
  /\ calls'[p] = Idle
  /\ result'.kind = "returned"
  /\ result.op = "getByPath" /\ result.path = calls[p].path
  /\ result.kind = "returned" /\ ~result.hit

\* a getByPath that missed inserts the key when it resumes with a record
FirstMiss(p) ==
  /\ calls[p].op = "getByPath" /\ calls[p].pc = "resume"
  /\ calls'[p] = Idle
  /\ result'.kind = "returned"
  /\ ~hasResult(This, calls[p].path)

\* the number of entries of the table t under key k
EntriesOf(t, k) ==
  Cardinality({ i \in 1..Len(keysResult(t)) : keysResult(t)[i] = k })

\* C34 as stated: when two getByPath calls for one uncached key both miss,
\* both read the store and both insert, the table ends with one entry for the
\* key (size has grown by 1, not 2) and both callers receive equal values.
C34_ConcurrentMissesAgree ==
  [][ \A p \in Requests :
        /\ FirstMiss(p) => size' = size + 1
        /\ SecondMiss(p) =>
             /\ size' = size
             /\ EntriesOf(This', calls[p].path) = 1
             /\ result'.value = result.value ]_vars

\* C34 amended: the table ends with one entry for the key (size has grown by
\* 1, not 2), which holds the value of the call that resumed last; each
\* caller receives the projection of the record its own read returned, so
\* the values are equal exactly when both reads returned the same record.
C34_ConcurrentMissesShareEntry ==
  [][ \A p \in Requests :
        /\ FirstMiss(p) => size' = size + 1
        /\ SecondMiss(p) =>
             /\ size' = size
             /\ EntriesOf(This', calls[p].path) = 1
             /\ result'.value = Projection(calls[p].ans.rows[1])
             /\ getResult(This', calls[p].path) = result'.value
             /\ (Projection(calls[p].ans.rows[1]) = result.value) <=>
                  (result'.value = result.value) ]_vars

\* two getByPath calls for one key have both read the store and both
\* returned; the table holds one entry
C34_Witness ==
  /\ nCalls = 2 /\ nFindByPath = 2
  /\ result.op = "getByPath" /\ result.kind = "returned" /\ ~result.hit
  /\ result.path = PathX
  /\ \A p \in Requests : calls[p] = Idle
  /\ size = 1 /\ EntriesOf(This, PathX) = 1
\* C35: once a registerFile for a path has completed and the cache holds the
\* record it wrote, no getByPath that resumes from its store read replaces
\* the cached value by the projection of an older record (ids are given in
\* the order of creation).
C35_NoStaleOverwrite ==
  [][ \A p \in Requests :
        ( /\ result.op = "registerFile" /\ result.kind = "returned"
          /\ hasResult(This, result.path)
          /\ getResult(This, result.path) = result.value
          /\ calls[p].op = "getByPath" /\ calls[p].pc = "resume"
          /\ calls'[p] = Idle )
        => getResult(This', result.path).id >= result.value.id ]_vars
\* caller p completes the second run of bootstrapHashmap: the first call after
\* startup, so that neither the store nor the cache has changed since the
\* first run
SecondRun(p) ==
  /\ calls[p].op = "bootstrapHashmap" /\ calls[p].pc = "resume"
  /\ calls[p].ans.kind = "rows"
  /\ calls'[p] = Idle
  /\ nCalls = 1

\* C36 as stated: a second run of bootstrapHashmap against an unchanged
\* store leaves the cache with the same keys, values and size, and several
\* active records sharing one path give a single entry.
C36_BootstrapIdempotent ==
  [][ \A p \in Requests : SecondRun(p) =>
        /\ size' = size
        /\ \A k \in Paths :
             /\ hasResult(This', k) <=> hasResult(This, k)
             /\ hasResult(This, k) =>
                  /\ getResult(This', k) = getResult(This, k)
                  /\ EntriesOf(This', k) = 1 ]_vars

\* C36 amended: the second run leaves the same keys and size, one entry per
\* path, and the same value at every path that a single active record holds;
\* at a path shared by several active records the value is the projection of
\* one of them (the one the store returned last in that run).
C36_BootstrapIdempotentOnKeys ==
  [][ \A p \in Requests : SecondRun(p) =>
        /\ size' = size
        /\ \A k \in Paths :
             /\ hasResult(This', k) <=> hasResult(This, k)
             /\ hasResult(This, k) =>
                  /\ EntriesOf(This', k) = 1
                  /\ IF Cardinality(ActiveAt(k)) = 1
                       THEN getResult(This', k) = getResult(This, k)
                       ELSE \E i \in ActiveAt(k) :
                              getResult(This', k) = Projection(store[i]) ]_vars

\* two active records share "uploads/x.txt": after the second run the cache
\* holds one entry for it
C36_Witness ==
  /\ nCalls = 1 /\ nFindAllActive = 2
  /\ result.op = "bootstrapHashmap" /\ result.kind = "returned"
  /\ Cardinality(ActiveAt(PathX)) = 2
  /\ size = 1 /\ EntriesOf(This, PathX) = 1
\* C37: listByProduct always asks the store (a call that starts is suspended
\* on findByProductId and returns nothing from the cache); when it resumes it
\* returns the projections of the records in the order the store gave them
\* and has set each under its path, so that the cache holds, at every such
\* path, the projection of the last record returned for it, and is unchanged
\* elsewhere; with no records it returns the empty list and leaves the cache
\* unchanged.
C37_ListByProductWritesThrough ==
  [][ \A p \in Requests :
        /\ (calls[p] = Idle /\ calls'[p].op = "listByProduct") =>
             /\ calls'[p].pc = "findByProductId"
             /\ result' = result
             /\ UNCHANGED table
        /\ (calls[p].op = "listByProduct" /\ calls'[p] = Idle
                                          /\ calls[p].ans.kind = "rows") =>
             LET recs == calls[p].ans.rows
             IN /\ calls[p].pc = "resume"
                /\ result'.op = "listByProduct" /\ result'.kind = "returned"
                /\ result'.list = [i \in 1..Len(recs) |-> Projection(recs[i])]
                /\ \A i \in 1..Len(recs) :
                     /\ hasResult(This', recs[i].path)
                     /\ getResult(This', recs[i].path) =
                          Projection(LastWith(recs, recs[i].path))
                /\ \A k \in Paths \ { recs[i].path : i \in 1..Len(recs) } :
                     /\ hasResult(This', k) <=> hasResult(This, k)
                     /\ hasResult(This, k) => getResult(This', k) = getResult(This, k)
                /\ recs = <<>> => (result'.list = <<>> /\ UNCHANGED table) ]_vars

\* listByProduct returned two records that share one path: the cache holds
\* the second
C37_Witness ==
  /\ result.op = "listByProduct" /\ result.kind = "returned"
  /\ Len(result.list) = 2
  /\ result.list[1].path = result.list[2].path
  /\ result.list[1] # result.list[2]
  /\ getResult(This, result.list[2].path) = result.list[2]
  /\ size = 1
\* the response r is the projection of a record of the store
Persisted(r) == \E i \in 1..Len(store) : Projection(store[i]) = r

\* C38: upload registers the files one after another in the order of its
\* input (while it waits, the file it registers is the one after those
\* already registered, whose records were created in that order) and
\* returns the results in that order; when the registration of file i fails
\* the failure propagates, upload has made i registrations and makes no
\* other, and the files before i stay persisted and cached.
C38_UploadSequential ==
  /\ [](\A p \in Requests : calls[p].op = "upload" =>
          LET files == calls[p].files
              done == calls[p].done
          IN /\ Len(done) < Len(files)
             /\ calls[p].path = files[Len(done) + 1]
             /\ calls[p].reads = Len(done) + 1
             /\ \A j \in 1..Len(done) :
                  /\ done[j].path = files[j]
                  /\ Persisted(done[j])
                  /\ hasResult(This, files[j])
             /\ \A i, j \in 1..Len(done) : i < j => done[i].id < done[j].id)
  /\ [][ \A p \in Requests :
          (calls[p].op = "upload" /\ calls'[p] = Idle) =>
            LET files == calls[p].files
                done == calls[p].done
            IN /\ result'.op = "upload"
               /\ IF result'.kind = "returned"
                    THEN /\ Len(result'.list) = Len(files)
                         /\ SubSeq(result'.list, 1, Len(done)) = done
                         /\ \A j \in 1..Len(files) :
                              /\ result'.list[j].path = files[j]
                              /\ hasResult(This', files[j])
                         /\ \A i, j \in 1..Len(files) :
                              i < j => result'.list[i].id < result'.list[j].id
                    ELSE \* file n failed: in the store, or in the move that
                         \* follows the registration of file n - 1
                         LET n == result'.reads
                         IN /\ n = Len(done) + (IF calls[p].ans.kind = "error" THEN 1 ELSE 2)
                            /\ n <= Len(files)
                            /\ result'.path = files[n]
                            /\ result'.list = <<>>
                            /\ store' = store
                            /\ calls[p].ans.kind = "error" => UNCHANGED table
                            /\ \A j \in 1..Len(done) : Persisted(done[j])
                            /\ \A j \in 1..(n - 1) :
                                 /\ hasResult(This', files[j])
                                 /\ \E i \in 1..Len(store) : store[i].path = files[j] ]_vars

\* an upload failed at its second file: the first one is persisted and
\* cached, nothing else was registered
C38_Witness ==
  /\ nCalls = 1
  /\ result.op = "upload" /\ result.kind = StoreError
  /\ result.reads = 2 /\ result.path = PathX
  /\ Len(store) = 1 /\ store[1].path = PathY
  /\ hasResult(This, PathY) /\ getResult(This, PathY) = Projection(store[1])
  /\ size = 1
  /\ \A p \in Requests : calls[p] = Idle
\* the nodes are those of the folders and files of the listing of dirPath,
\* one node each, with the entry's name, its type and its path under dirPath
NodesOfListing(nodes, listing, dirPath) ==
  /\ Len(nodes) = Cardinality({ i \in 1..Len(listing) : listing[i].kind # "other" })
  /\ \A i \in 1..Len(listing) : listing[i].kind # "other" =>
       \E j \in 1..Len(nodes) :
         /\ nodes[j].name = listing[i].name
         /\ nodes[j].type = listing[i].kind
         /\ nodes[j].path = Append(dirPath, listing[i].name)

\* all folders come before all files
FoldersFirst(nodes) ==
  \A i, j \in 1..Len(nodes) :
    (nodes[i].type = "folder" /\ nodes[j].type = "file") => i < j

\* the order of the names in a dictionary: "a", "ab", "b", "B"
DictionaryRank(name) ==
  CASE name = <<97>> -> 1
    [] name = <<97, 98>> -> 2
    [] name = <<98>> -> 3
    [] name = <<66>> -> 4

\* folders and files are each in the order of the code units of their names
\* ("B" before "a")
ByCodeUnits(nodes) ==
  \A i, j \in 1..Len(nodes) :
    (i < j /\ nodes[i].type = nodes[j].type) =>
      compareAt(nodes[i].name, nodes[j].name, 1, 0) < 0

\* folders and files are each in dictionary order
ByDictionary(nodes) ==
  \A i, j \in 1..Len(nodes) :
    (i < j /\ nodes[i].type = nodes[j].type) =>
      DictionaryRank(nodes[i].name) < DictionaryRank(nodes[j].name)

\* the folder nodes among nodes
FoldersOf(nodes) == { nodes[i] : i \in { j \in 1..Len(nodes) : nodes[j].type = "folder" } }

\* C39 as stated: at every level of the tree buildDirectoryTree returns the
\* folders before the files, each in lexicographic order of the names (the
\* order of their code units), whatever the order of the directory listing;
\* and the call leaves the cache unchanged.
C39_TreeSortedLexicographically ==
  /\ []((last.op = "buildDirectoryTree" /\ ~last.threw) =>
         /\ NodesOfListing(last.ret.children, last.key.root, uploadsRoot)
         /\ FoldersFirst(last.ret.children) /\ ByCodeUnits(last.ret.children)
         /\ \A f \in FoldersOf(last.ret.children) :
              /\ NodesOfListing(f.children, last.key.sub, f.path)
              /\ FoldersFirst(f.children) /\ ByCodeUnits(f.children)
              /\ \A g \in FoldersOf(f.children) : g.children = <<>>)
  /\ [][last'.op = "buildDirectoryTree" => UNCHANGED table]_vars

\* C39 amended: at every level the folders come before the files, each in
\* the order of localeCompare, which is the dictionary's ("a", "ab", "b",
\* "B": letters first, lower case before upper case on a tie) and not that of
\* the code units; the nodes are those of the folders and files of the
\* listing, whatever its order; the cache is neither read nor changed.
C39_TreeSortedByLocaleCompare ==
  /\ []((last.op = "buildDirectoryTree" /\ ~last.threw) =>
         /\ NodesOfListing(last.ret.children, last.key.root, uploadsRoot)
         /\ FoldersFirst(last.ret.children) /\ ByDictionary(last.ret.children)
         /\ \A f \in FoldersOf(last.ret.children) :
              /\ NodesOfListing(f.children, last.key.sub, f.path)
              /\ FoldersFirst(f.children) /\ ByDictionary(f.children)
              /\ \A g \in FoldersOf(f.children) : g.children = <<>>)
  /\ [][last'.op = "buildDirectoryTree" => UNCHANGED table]_vars

\* the listing gave the file "B" before the file "a" before the folder "b",
\* and in the folder the file "B" before the folder "a"; the cache holds an
\* entry
C39_Witness ==
  /\ last.op = "buildDirectoryTree" /\ ~last.threw
  /\ last.key.root = << [name |-> <<66>>, kind |-> "file"],
                        [name |-> <<97>>, kind |-> "file"],
                        [name |-> <<98>>, kind |-> "folder"] >>
  /\ last.key.sub = << [name |-> <<66>>, kind |-> "file"],
                       [name |-> <<97>>, kind |-> "folder"] >>
  /\ Len(last.ret.children) = 3
  /\ last.ret.children[1].name = <<98>>
  /\ Len(last.ret.children[1].children) = 2
  /\ last.ret.children[2].name = <<97>>
  /\ last.ret.children[3].name = <<66>>
  /\ size = 1
====
